---- MODULE Spec2Model ----
(***************************************************************************)
(* Model of the news collection pipeline of news_collector_1.py:           *)
(* NewsClassifier.classify, NewsCollector._process_result, _deduplicate,   *)
(* _limit_per_category, collect_industry_news, collect_competitor_news,    *)
(* collect_for_company, and NewsCollectorWrapper.collect_by_company.       *)
(*                                                                         *)
(* A text is a sequence of characters; a character is a one-element string *)
(* ("a", "?", " "), a Hangul syllable is written by its code point         *)
(* ("uADDC").                                                              *)
(***************************************************************************)
EXTENDS Integers, Sequences, FiniteSets, TLC

(***************************************************************************)
(* Sequence helpers                                                        *)
(***************************************************************************)
Range(s) == { s[i] : i \in 1..Len(s) }

Min(a, b) == IF a <= b THEN a ELSE b

Max(a, b) == IF a >= b THEN a ELSE b

\* Python's s[:n], for negative n as well
Slice(s, n) ==
  IF n >= 0 THEN SubSeq(s, 1, Min(n, Len(s)))
            ELSE SubSeq(s, 1, Max(Len(s) + n, 0))

\* Python's "kw in text" on strings
Contains(text, kw) ==
  \E i \in 0..(Len(text) - Len(kw)) :
     \A j \in 1..Len(kw) : text[i + j] = kw[j]

RECURSIVE Flatten(_)
Flatten(ss) == IF ss = <<>> THEN <<>> ELSE Head(ss) \o Flatten(Tail(ss))

\* Python's str.lower() on the characters of the model's alphabet
UpperToLower ==
  [ c \in {"A","B","C","D","E","F","G","H","I","J","K","L","M",
           "N","O","P","Q","R","S","T","U","V","W","X","Y","Z"} |->
    CASE c = "A" -> "a" [] c = "B" -> "b" [] c = "C" -> "c" [] c = "D" -> "d"
      [] c = "E" -> "e" [] c = "F" -> "f" [] c = "G" -> "g" [] c = "H" -> "h"
      [] c = "I" -> "i" [] c = "J" -> "j" [] c = "K" -> "k" [] c = "L" -> "l"
      [] c = "M" -> "m" [] c = "N" -> "n" [] c = "O" -> "o" [] c = "P" -> "p"
      [] c = "Q" -> "q" [] c = "R" -> "r" [] c = "S" -> "s" [] c = "T" -> "t"
      [] c = "U" -> "u" [] c = "V" -> "v" [] c = "W" -> "w" [] c = "X" -> "x"
      [] c = "Y" -> "y" [] c = "Z" -> "z" ]

LowerChar(c) == IF c \in DOMAIN UpperToLower THEN UpperToLower[c] ELSE c

Lower(text) == [ i \in 1..Len(text) |-> LowerChar(text[i]) ]

(***************************************************************************)
(* What the feed and the pages deliver in the model                        *)
(***************************************************************************)
\* extract_article: success needs len(result) > 100
MinBodyLen == 100

Pad(n) == [ i \in 1..n |-> "x" ]

TitlePlain == <<"n","e","w","s">>

DescBan == <<"n","e","w"," ","b","a","n">>

DescLaunch == <<"l","a","u","n","c","h">>

DescMarket == <<"m","a","r","k","e","t">>

RssItem(url, description) ==
  [ title |-> TitlePlain, url |-> url, source |-> "wire", published_at |-> "date",
    description |-> description ]

\* what a search can deliver: links that differ by query string or trailing
\* slash only, descriptions with and without keywords, and a hit without link
Items ==
  { RssItem(<<"a">>, <<>>),
    RssItem(<<"a","/","?","r">>, DescLaunch),
    RssItem(<<"b">>, DescMarket),
    RssItem(<<"c","/">>, DescBan),
    RssItem(<<>>, DescBan) }

BodyShort == <<"b","a","n">>

BodyLong ==
  Pad(MinBodyLen + 1) \o <<" ","p","o","l","i","c","y"," ">>
    \o <<"uADDC","uC81C"," ","uC2DC","uC7A5"," ","uADDC","uC81C">>

\* how the download and extraction of one page can end
Outcomes ==
  { [ kind |-> "exception", result |-> <<>>, author |-> "", message |-> "timed out" ],
    [ kind |-> "text", result |-> BodyShort, author |-> "", message |-> "" ],
    [ kind |-> "text", result |-> BodyLong, author |-> "desk", message |-> "" ] }

NoOutcome == [ kind |-> "exception", result |-> <<>>, author |-> "", message |-> "timed out" ]

\* the fallback GET answered with a status other than 200
HttpOutcome == [ kind |-> "http", result |-> <<>>, author |-> "", message |-> "" ]

\* every way one extract_article call can end: the outcomes above, an
\* exception whose str() is empty (MemoryError(), a bare assert), texts of
\* exactly and just under the minimum length, no text, and a missing library
CrawlOutcomes ==
  Outcomes \cup
  { HttpOutcome,
    [ kind |-> "exception", result |-> <<>>, author |-> "", message |-> "" ],
    [ kind |-> "text", result |-> Pad(MinBodyLen), author |-> "desk", message |-> "" ],
    [ kind |-> "text", result |-> Pad(MinBodyLen - 1), author |-> "desk", message |-> "" ],
    [ kind |-> "text", result |-> <<>>, author |-> "", message |-> "" ],
    [ kind |-> "unavailable", result |-> <<>>, author |-> "", message |-> "" ] }

FeedBodies == { o.result : o \in Outcomes }

FeedTexts == { <<i.title, i.description, b>> : i \in Items, b \in FeedBodies }

(***************************************************************************)
(* NewsClassifier                                                          *)
(***************************************************************************)
REGULATION_KEYWORDS ==
  << <<"uADDC","uC81C">>,
     <<"uBC95","uC548">>,
     <<"uBC95","uB960">>,
     <<"uC758","uBB34","uD654">>,
     <<"uD5C8","uAC00">>,
     <<"uC778","uD5C8","uAC00">>,
     <<"uAE08","uC9C0">>,
     <<"uACFC","uC9D5","uAE08">>,
     <<"uC81C","uC7AC">>,
     <<"uC900","uC218">>,
     <<"uCEF4","uD50C","uB77C","uC774","uC5B8","uC2A4">>,
     <<"uAC10","uB3C5">>,
     <<"uAC10","uC0AC">>,
     <<"r","e","g","u","l","a","t","i","o","n">>,
     <<"c","o","m","p","l","i","a","n","c","e">>,
     <<"b","a","n">>,
     <<"m","a","n","d","a","t","e">>,
     <<"p","o","l","i","c","y">>,
     <<"uAC1C","uC815">>,
     <<"uC2DC","uD589">>,
     <<"uC704","uBC18">>,
     <<"uCC98","uBC8C">>,
     <<"uAC00","uC774","uB4DC","uB77C","uC778">> >>

COMPETITOR_KEYWORDS ==
  << <<"uC2E4","uC801">>,
     <<"uB9E4","uCD9C">>,
     <<"uC601","uC5C5","uC774","uC775">>,
     <<"uD22C","uC790">>,
     <<"uC778","uC218">>,
     <<"uD569","uBCD1">>,
     <<"M","&","A">>,
     <<"uCD9C","uC2DC">>,
     <<"uB7F0","uCE6D">>,
     <<"uC11C","uBE44","uC2A4"," ","uC2DC","uC791">>,
     <<"uC81C","uD734">>,
     <<"uD30C","uD2B8","uB108","uC2ED">>,
     <<"uD611","uC5C5">>,
     <<"I","P","O">>,
     <<"uC0C1","uC7A5">>,
     <<"uC720","uCE58">>,
     <<"uD655","uC7A5">>,
     <<"uC9C4","uCD9C">>,
     <<"uCC44","uC6A9">>,
     <<"r","e","v","e","n","u","e">>,
     <<"a","c","q","u","i","s","i","t","i","o","n">>,
     <<"l","a","u","n","c","h">>,
     <<"p","a","r","t","n","e","r","s","h","i","p">> >>

TREND_KEYWORDS ==
  << <<"uD2B8","uB80C","uB4DC">>,
     <<"uC804","uB9DD">>,
     <<"uC131","uC7A5">>,
     <<"uD601","uC2E0">>,
     <<"uBBF8","uB798">>,
     <<"uBCC0","uD654">>,
     <<"uB3D9","uD5A5">>,
     <<"uC2DC","uC7A5">>,
     <<"uBD84","uC11D">>,
     <<"uBCF4","uACE0","uC11C">>,
     <<"uB9AC","uD3EC","uD2B8">>,
     <<"uC608","uCE21">>,
     <<"uD655","uB300">>,
     <<"t","r","e","n","d">>,
     <<"f","o","r","e","c","a","s","t">>,
     <<"m","a","r","k","e","t">>,
     <<"g","r","o","w","t","h">>,
     <<"i","n","n","o","v","a","t","i","o","n">>,
     <<"uC804","uD658">>,
     <<"uB3C4","uC785">>,
     <<"uBD80","uC0C1">>,
     <<"uC8FC","uBAA9">> >>

\* extract_keywords(text, top_n=5)
TopN == 5

\* classify reads full_text[:500]
BodyPrefix == 500

Score(kws, text_lower) ==
  Cardinality({ i \in 1..Len(kws) : Contains(text_lower, kws[i]) })

ClassifyText(title, description, full_text) ==
  Lower(title \o <<" ">> \o description \o <<" ">> \o Slice(full_text, BodyPrefix))

\* mutant of Decide: regulation wins its ties (>= for >)
DecideRegulationWinsTies(reg_score, comp_score, trend_score) ==
  IF reg_score >= comp_score /\ reg_score >= trend_score
    THEN <<"regulation", "L_regulation">>
  ELSE IF comp_score > trend_score
    THEN <<"competitor", "L_competitor">>
  ELSE <<"industry_trend", "L_industry_trend">>

\* the (category, category_label) pair chosen from the three scores
Decide(reg_score, comp_score, trend_score) ==
  IF reg_score > comp_score /\ reg_score > trend_score
    THEN <<"regulation", "L_regulation">>
  ELSE IF comp_score > trend_score
    THEN <<"competitor", "L_competitor">>
  ELSE <<"industry_trend", "L_industry_trend">>

\* <<reg_score, comp_score, trend_score>> of an article's text
Scores(title, description, full_text) ==
  LET text_lower == ClassifyText(title, description, full_text)
  IN  << Score(REGULATION_KEYWORDS, text_lower),
         Score(COMPETITOR_KEYWORDS, text_lower),
         Score(TREND_KEYWORDS, text_lower) >>

\* the scores of the texts the feed and the crawler of the model deliver, computed once
ScoreTable ==
  { [ title |-> t[1], description |-> t[2], full_text |-> t[3],
      scores |-> Scores(t[1], t[2], t[3]) ] : t \in FeedTexts }

ScoresOf(title, description, full_text) ==
  IF <<title, description, full_text>> \in FeedTexts
    THEN (CHOOSE r \in ScoreTable :
            r.title = title /\ r.description = description /\ r.full_text = full_text).scores
    ELSE Scores(title, description, full_text)

classify(article) ==
  LET s == ScoresOf(article.title, article.description, article.full_text)
      d == Decide(s[1], s[2], s[3])
  IN  [ article EXCEPT !.category = d[1], !.category_label = d[2] ]

(***************************************************************************)
(* NewsCollector: dedup and cap                                            *)
(***************************************************************************)
\* url.split("?")[0]
BeforeQuery(url) ==
  IF \E i \in 1..Len(url) : url[i] = "?"
    THEN SubSeq(url, 1, (CHOOSE i \in 1..Len(url) :
                           url[i] = "?" /\ \A j \in 1..(i - 1) : url[j] # "?") - 1)
    ELSE url

\* s.rstrip("/")
RECURSIVE RStripSlash(_)
RStripSlash(s) ==
  IF s # <<>> /\ s[Len(s)] = "/" THEN RStripSlash(SubSeq(s, 1, Len(s) - 1)) ELSE s

\* mutant of Normalize: the trailing slash stays
NormalizeKeepsSlash(url) == BeforeQuery(url)

Normalize(url) == RStripSlash(BeforeQuery(url))

\* mutant of DedupFrom: seen_urls is never added to
RECURSIVE DedupFromSeenNotUpdated(_, _, _)
DedupFromSeenNotUpdated(articles, seen_urls, unique) ==
  IF articles = <<>> THEN unique
  ELSE LET a          == Head(articles)
           normalized == Normalize(a.url)
       IN  IF normalized \notin seen_urls
             THEN DedupFromSeenNotUpdated(Tail(articles), seen_urls, Append(unique, a))
             ELSE DedupFromSeenNotUpdated(Tail(articles), seen_urls, unique)

\* mutant of DedupFrom: the raw URL is the key
RECURSIVE DedupFromRawUrl(_, _, _)
DedupFromRawUrl(articles, seen_urls, unique) ==
  IF articles = <<>> THEN unique
  ELSE LET a == Head(articles)
       IN  IF a.url \notin seen_urls
             THEN DedupFromRawUrl(Tail(articles), seen_urls \cup {a.url}, Append(unique, a))
             ELSE DedupFromRawUrl(Tail(articles), seen_urls, unique)

RECURSIVE DedupFrom(_, _, _)
DedupFrom(articles, seen_urls, unique) ==
  IF articles = <<>> THEN unique
  ELSE LET a          == Head(articles)
           normalized == Normalize(a.url)
       IN  IF normalized \notin seen_urls
             THEN DedupFrom(Tail(articles), seen_urls \cup {normalized}, Append(unique, a))
             ELSE DedupFrom(Tail(articles), seen_urls, unique)

_deduplicate(articles) == DedupFrom(articles, {}, <<>>)

\* the keys of a dict filled by setdefault over the list, in insertion order
RECURSIVE KeysInOrder(_, _)
KeysInOrder(keys, acc) ==
  IF keys = <<>> THEN acc
  ELSE IF Head(keys) \in Range(acc) THEN KeysInOrder(Tail(keys), acc)
  ELSE KeysInOrder(Tail(keys), Append(acc, Head(keys)))

Categories(articles) == KeysInOrder([ i \in 1..Len(articles) |-> articles[i].category ], <<>>)

OfCategory(articles, cat) == SelectSeq(articles, LAMBDA a : a.category = cat)

\* mutant of _limit_per_category: the cap is applied to the whole list
LimitWholeList(articles, max_per) == Slice(articles, max_per)

_limit_per_category(articles, max_per) ==
  LET cats == Categories(articles)
  IN  Flatten([ i \in 1..Len(cats) |-> Slice(OfCategory(articles, cats[i]), max_per) ])

Companies(articles) == KeysInOrder([ i \in 1..Len(articles) |-> articles[i].company ], <<>>)

OfCompany(articles, comp) == SelectSeq(articles, LAMBDA a : a.company = comp)

\* mutant of LimitPerCompany: the cap is applied to the whole list
LimitAllCompanies(articles, max_per_company) == Slice(articles, max_per_company)

\* the by_company grouping and cap at the end of collect_competitor_news
LimitPerCompany(articles, max_per_company) ==
  LET comps == Companies(articles)
  IN  Flatten([ i \in 1..Len(comps) |-> Slice(OfCompany(articles, comps[i]), max_per_company) ])

stopwords ==
  { <<"uAC83","uC774">>, <<"uD558","uB294">>, <<"uC788","uB294">>,
    <<"uC774","uBC88">>, <<"uB300","uD55C">>, <<"uD1B5","uD574">>,
    <<"uC704","uD574">>, <<"uC5D0","uC11C">>, <<"uC73C","uB85C">>,
    <<"uAE4C","uC9C0">>, <<"uBD80","uD130">>, <<"uC5D0","uAC8C">>,
    <<"uC774","uB77C">>, <<"uD558","uACE0">>, <<"uB418","uB294">>,
    <<"uD588","uB2E4">>, <<"uD55C","uB2E4">>, <<"uC788","uB2E4">>,
    <<"uB41C","uB2E4">>, <<"uC774","uB2E4">>, <<"uB77C","uACE0">>,
    <<"uC5D0","uB294">> }

(***************************************************************************)
(* NewsClassifier.extract_keywords                                         *)
(***************************************************************************)
AsciiChars ==
  DOMAIN UpperToLower \cup Range(Lower(
    <<"A","B","C","D","E","F","G","H","I","J","K","L","M",
      "N","O","P","Q","R","S","T","U","V","W","X","Y","Z">>))
  \cup {" ", "&", "?", "/", ".", ":"}

\* the characters of the alphabet that the class [가-힣] matches
HangulChars ==
  (Range(Flatten(REGULATION_KEYWORDS)) \cup Range(Flatten(COMPETITOR_KEYWORDS))
     \cup Range(Flatten(TREND_KEYWORDS)) \cup UNION { Range(w) : w \in stopwords })
  \ AsciiChars

\* re.findall(r'[가-힣]{2,}', text): the maximal runs of two or more Hangul
\* characters, from left to right
RunStarts(text) ==
  { i \in 1..Len(text) :
      /\ text[i] \in HangulChars
      /\ (i = 1 \/ text[i - 1] \notin HangulChars)
      /\ i < Len(text) /\ text[i + 1] \in HangulChars }

RunEnd(text, i) ==
  CHOOSE j \in i..Len(text) :
    /\ \A m \in i..j : text[m] \in HangulChars
    /\ (j = Len(text) \/ text[j + 1] \notin HangulChars)

HangulWords(text) ==
  LET starts == RunStarts(text)
      nth(n) == CHOOSE s \in starts : Cardinality({ t \in starts : t < s }) = n - 1
  IN  [ n \in 1..Cardinality(starts) |-> SubSeq(text, nth(n), RunEnd(text, nth(n))) ]

Count(words, w) == Cardinality({ i \in 1..Len(words) : words[i] = w })

\* sorted(freq.items(), key=count, reverse=True): stable, so ties keep first-seen order
RECURSIVE SortByCount(_, _)
SortByCount(keys, words) ==
  IF keys = <<>> THEN <<>>
  ELSE LET best == CHOOSE i \in 1..Len(keys) :
                     /\ \A j \in 1..Len(keys) : Count(words, keys[j]) <= Count(words, keys[i])
                     /\ \A j \in 1..(i - 1) : Count(words, keys[j]) < Count(words, keys[i])
       IN  <<keys[best]>> \o
           SortByCount(SubSeq(keys, 1, best - 1) \o SubSeq(keys, best + 1, Len(keys)), words)

TopKeywords(text) ==
  LET found == HangulWords(text)
      words == SelectSeq(found, LAMBDA w : w \notin stopwords /\ Len(w) >= 2)
  IN  Slice(SortByCount(KeysInOrder(words, <<>>), words), TopN)

\* the keywords of the bodies the crawler of the model delivers, computed once
KeywordTable == { [ text |-> b, keywords |-> TopKeywords(b) ] : b \in FeedBodies }

extract_keywords(text) ==
  IF text \in FeedBodies
    THEN (CHOOSE r \in KeywordTable : r.text = text).keywords
    ELSE TopKeywords(text)

(***************************************************************************)
(* ArticleCrawler.extract_article                                          *)
(*                                                                         *)
(* The network is the environment: an outcome says how the download and    *)
(* the text extraction of one page ended.                                  *)
(*   kind "unavailable": HAS_TRAFILATURA is false                          *)
(*   kind "exception": a call raised, str(e) is `message`                  *)
(*   kind "http":      the fallback GET answered with a status other 200   *)
(*   kind "text":      trafilatura.extract returned `result`               *)
(***************************************************************************)
extract_article(outcome) ==
  IF outcome.kind = "unavailable"
    THEN [ full_text |-> <<>>, success |-> FALSE, error |-> "trafilatura not installed",
           author |-> "", word_count |-> 0 ]
  ELSE IF outcome.kind = "exception"
    THEN [ full_text |-> <<>>, success |-> FALSE, error |-> outcome.message,
           author |-> "", word_count |-> 0 ]
  ELSE IF outcome.kind = "http"
    THEN [ full_text |-> <<>>, success |-> FALSE, error |-> "HTTP status",
           author |-> "", word_count |-> 0 ]
  ELSE IF outcome.result # <<>> /\ Len(outcome.result) > MinBodyLen
    THEN [ full_text |-> outcome.result, success |-> TRUE, error |-> "",
           author |-> outcome.author, word_count |-> Len(outcome.result) ]
  ELSE [ full_text |-> outcome.result, success |-> FALSE, error |-> "too short",
         author |-> "", word_count |-> 0 ]

\* the host of Google News redirect links
GoogleNewsHost == <<"n","e","w","s",".","g","o","o","g","l","e",".","c","o","m">>

\* head: how the HEAD request ended, [raised |-> TRUE] or the final url
_resolve_google_news_url(url, head) ==
  IF Contains(url, GoogleNewsHost)
    THEN IF head.raised THEN url ELSE head.url
    ELSE url

(***************************************************************************)
(* NewsCollector._process_result                                           *)
(***************************************************************************)
\* mutant of NewsArticle: category and label are left at the dataclass defaults
NewsArticleWithDefaultCategory(rss_item, industry, category, category_label, now) ==
  [ title          |-> rss_item.title,
    url            |-> rss_item.url,
    source         |-> rss_item.source,
    published_at   |-> rss_item.published_at,
    description    |-> rss_item.description,
    full_text      |-> <<>>,
    author         |-> "",
    category       |-> "",
    category_label |-> "",
    industry       |-> industry,
    company        |-> "",
    keywords       |-> <<>>,
    word_count     |-> 0,
    crawl_success  |-> FALSE,
    crawled_at     |-> now ]

NewsArticle(rss_item, industry, category, category_label, now) ==
  [ title          |-> rss_item.title,
    url            |-> rss_item.url,
    source         |-> rss_item.source,
    published_at   |-> rss_item.published_at,
    description    |-> rss_item.description,
    full_text      |-> <<>>,
    author         |-> "",
    category       |-> category,
    category_label |-> category_label,
    industry       |-> industry,
    company        |-> "",
    keywords       |-> <<>>,
    word_count     |-> 0,
    crawl_success  |-> FALSE,
    crawled_at     |-> now ]

\* mutant of Crawled: word_count is not copied from the extraction
CrawledWithoutWordCount(article, crawling, outcome) ==
  IF crawling /\ extract_article(outcome).success
    THEN [ article EXCEPT !.full_text     = extract_article(outcome).full_text,
                          !.author        = extract_article(outcome).author,
                          !.crawl_success = TRUE,
                          !.keywords      = extract_keywords(extract_article(outcome).full_text) ]
    ELSE [ article EXCEPT !.crawl_success = FALSE ]

\* mutant of Crawled: a failed extraction's partial text is copied to the article
CrawledKeepsPartialText(article, crawling, outcome) ==
  IF crawling
    THEN [ article EXCEPT !.full_text     = extract_article(outcome).full_text,
                          !.author        = extract_article(outcome).author,
                          !.word_count    = extract_article(outcome).word_count,
                          !.crawl_success = extract_article(outcome).success,
                          !.keywords      = IF extract_article(outcome).success
                                              THEN extract_keywords(extract_article(outcome).full_text)
                                              ELSE <<>> ]
    ELSE [ article EXCEPT !.crawl_success = FALSE ]

Crawled(article, crawling, outcome) ==
  IF crawling /\ extract_article(outcome).success
    THEN LET extracted == extract_article(outcome)
         IN  [ article EXCEPT !.full_text     = extracted.full_text,
                              !.author        = extracted.author,
                              !.word_count    = extracted.word_count,
                              !.crawl_success = TRUE,
                              !.keywords      = extract_keywords(extracted.full_text) ]
    ELSE [ article EXCEPT !.crawl_success = FALSE ]

Classified(article) ==
  IF article.full_text # <<>> \/ article.description # <<>>
    THEN classify(article)
    ELSE article

\* mutant of _process_result: a hit without a link is made an article too
ProcessResultWithoutLinkCheck(rss_item, industry, category, category_label, crawling, outcome, now) ==
  << Classified(Crawled(NewsArticle(rss_item, industry, category, category_label, now),
                        crawling, outcome)) >>

\* mutant of _process_result: an article whose extraction failed is dropped
ProcessResultDropsFailedExtraction(rss_item, industry, category, category_label, crawling, outcome, now) ==
  IF rss_item.url = <<>> \/ (crawling /\ ~extract_article(outcome).success) THEN <<>>
  ELSE << Classified(Crawled(NewsArticle(rss_item, industry, category, category_label, now),
                             crawling, outcome)) >>

\* <<>> stands for the None returned for a hit without a link, otherwise <<article>>
_process_result(rss_item, industry, category, category_label, crawling, outcome, now) ==
  IF rss_item.url = <<>> THEN <<>>
  ELSE << Classified(Crawled(NewsArticle(rss_item, industry, category, category_label, now),
                             crawling, outcome)) >>

(***************************************************************************)
(* GoogleNewsRSS                                                           *)
(*                                                                         *)
(* The feed is the environment: a response says how the GET ended.         *)
(*   kind "error":     the request raised (network error, timeout)         *)
(*   kind "status":    the feed answered with a status other than 200      *)
(*   kind "malformed": the payload is no XML, ET.fromstring raises         *)
(*   kind "ok":        the payload parsed, `items` are its <item> elements *)
(***************************************************************************)
KOREAN_SOURCE_PATTERNS ==
  << <<".","k","r">>,
     <<"d","a","u","m",".","n","e","t">>,
     <<"n","a","v","e","r",".","c","o","m">>,
     <<"c","h","o","s","u","n",".","c","o","m">>,
     <<"j","o","o","n","g","a","n","g",".","c","o">>,
     <<"d","o","n","g","a",".","c","o","m">>,
     <<"h","a","n","k","y","u","n","g",".","c","o","m">>,
     <<"m","k",".","c","o">>,
     <<"s","e","d","a","i","l","y",".","c","o","m">>,
     <<"e","t","n","e","w","s",".","c","o","m">>,
     <<"z","d","n","e","t",".","c","o",".","k","r">>,
     <<"b","l","o","t","e","r",".","n","e","t">>,
     <<"p","l","a","t","u","m",".","k","r">>,
     <<"v","e","n","t","u","r","e","s","q","u","a","r","e",".","n","e","t">>,
     <<"a","i","t","i","m","e","s",".","c","o","m">>,
     <<"a","i","t","i","m","e","s",".","k","r">>,
     <<"t","e","c","h","m",".","k","r">>,
     <<"b","y","l","i","n","e",".","n","e","t","w","o","r","k">>,
     <<"uC870","uC120","uC77C","uBCF4">>,
     <<"uC911","uC559","uC77C","uBCF4">>,
     <<"uB3D9","uC544","uC77C","uBCF4">>,
     <<"uD55C","uAD6D","uACBD","uC81C">>,
     <<"uB9E4","uC77C","uACBD","uC81C">>,
     <<"uC11C","uC6B8","uACBD","uC81C">>,
     <<"uC804","uC790","uC2E0","uBB38">>,
     <<"uC9C0","uB514","uB137","uCF54","uB9AC","uC544">>,
     <<"uBE14","uB85C","uD130">>,
     <<"uD50C","uB798","uD140">>,
     <<"uBCA4","uCC98","uC2A4","uD018","uC5B4">>,
     <<"A","I","uD0C0","uC784","uC2A4">>,
     <<"uD14C","uD06C","uC5E0">>,
     <<"uBC14","uC774","uB77C","uC778","uB124","uD2B8","uC6CC","uD06C">>,
     <<"uC5F0","uD569","uB274","uC2A4">>,
     <<"K","B","S">>,
     <<"M","B","C">>,
     <<"S","B","S">>,
     <<"J","T","B","C">>,
     <<"Y","T","N">>,
     <<"v",".","d","a","u","m",".","n","e","t">>,
     <<"n","e","w","s",".","n","a","v","e","r",".","c","o","m">>,
     <<"n",".","n","e","w","s",".","n","a","v","e","r",".","c","o","m">>,
     <<"V","i","e","t","n","a","m",".","v","n">> >>

\* korean_chars > len(title) * 0.3, the factor in tenths; the float product
\* compares like the exact one for every title shorter than 300 characters
KoreanRatioTenths == 3

\* fetch_limit = max_results * 3
OverFetch == 3

\* desc_clean[:500]
DescriptionLimit == 500

\* the characters of the alphabet that the class [가-힣] matches in a title
KoreanChars == HangulChars \cup (Range(Flatten(KOREAN_SOURCE_PATTERNS)) \ AsciiChars)

MatchesPattern(check_text) ==
  \E i \in 1..Len(KOREAN_SOURCE_PATTERNS) :
     Contains(check_text, Lower(KOREAN_SOURCE_PATTERNS[i]))

KoreanCharCount(title) == Cardinality({ i \in 1..Len(title) : title[i] \in KoreanChars })

\* mutant of _is_korean_source: a title at exactly 30% Hangul is rejected (>= for >)
IsKoreanFromThirtyPercent(source, url, title) ==
  IF MatchesPattern(Lower(source \o <<" ">> \o url \o <<" ">> \o title)) THEN TRUE
  ELSE title # <<>> /\ 10 * KoreanCharCount(title) >= KoreanRatioTenths * Len(title)

_is_korean_source(source, url, title) ==
  IF MatchesPattern(Lower(source \o <<" ">> \o url \o <<" ">> \o title)) THEN TRUE
  ELSE title # <<>> /\ 10 * KoreanCharCount(title) > KoreanRatioTenths * Len(title)

\* where the match of <[^>]+> that starts at position i ends, 0 without match
TagEnd(text, i) ==
  IF text[i] = "<" /\ \E j \in (i + 2)..Len(text) :
                         text[j] = ">" /\ \A m \in (i + 1)..(j - 1) : text[m] # ">"
    THEN CHOOSE j \in (i + 2)..Len(text) :
           text[j] = ">" /\ \A m \in (i + 1)..(j - 1) : text[m] # ">"
    ELSE 0

\* re.sub(r"<[^>]+>", "", desc)
RECURSIVE StripTagsFrom(_, _)
StripTagsFrom(text, i) ==
  IF i > Len(text) THEN <<>>
  ELSE IF TagEnd(text, i) > 0 THEN StripTagsFrom(text, TagEnd(text, i) + 1)
  ELSE <<text[i]>> \o StripTagsFrom(text, i + 1)

\* the record search appends for one feed item
ResultRecord(item) ==
  [ title |-> item.title, url |-> item.link, source |-> item.source,
    published_at |-> item.pubDate,
    description |-> Slice(StripTagsFrom(item.description, 1), DescriptionLimit) ]

\* the `when:` token appended to params["q"]
FreshnessToken(days) ==
  IF days <= 1 THEN <<"when:1d">>
  ELSE IF days <= 7 THEN <<"when:7d">>
  ELSE IF days <= 30 THEN <<"when:30d">>
  ELSE <<>>

\* mutant of FetchLimit: no slack for rejected items
FetchLimitWithoutSlack(max_results, exclude_korean) == max_results

FetchLimit(max_results, exclude_korean) ==
  IF exclude_korean THEN max_results * OverFetch ELSE max_results

\* <item> elements of the feed
FeedItem(title, link, source, description) ==
  [ title |-> title, link |-> link, source |-> source, pubDate |-> "date",
    description |-> description ]

SourceWire == <<"w","i","r","e">>

\* 2 of 5 characters are Hangul
TitleForty == <<"uADDC","uC81C","a","b","c">>

\* 3 of 10 characters are Hangul
TitleThirty == <<"uADDC","uC81C","uADDC","a","b","c","d","e","f","g">>

DescTagged == <<"<","b",">","b","a","n","<","/","b",">">>

\* two plain items, one of a .kr domain, one with a Hangul title
FeedItems ==
  { FeedItem(TitlePlain, <<"a">>, SourceWire, DescTagged),
    FeedItem(TitlePlain, <<"b">>, SourceWire, <<>>),
    FeedItem(TitlePlain, <<"c",".","k","r">>, SourceWire, <<>>),
    FeedItem(TitleForty, <<"d">>, SourceWire, <<>>) }

\* the items of the model's feed that _is_korean_source rejects, computed once
KoreanFeedItems ==
  { item \in FeedItems : _is_korean_source(item.source, item.link, item.title) }

IsKoreanItem(item) ==
  IF item \in FeedItems THEN item \in KoreanFeedItems
  ELSE _is_korean_source(item.source, item.link, item.title)

\* the loop over items[:fetch_limit], from the i-th item on
RECURSIVE SearchLoop(_, _, _, _, _)
SearchLoop(items, i, results, max_results, exclude_korean) ==
  IF i > Len(items) THEN results
  ELSE IF exclude_korean /\ IsKoreanItem(items[i])
    THEN SearchLoop(items, i + 1, results, max_results, exclude_korean)
  ELSE IF Len(results) + 1 >= max_results
    THEN Append(results, ResultRecord(items[i]))
  ELSE SearchLoop(items, i + 1, Append(results, ResultRecord(items[i])),
                  max_results, exclude_korean)

\* mutant of search: a status other than 200 is raised to the caller
SearchRaisesOnStatus(response, query, max_results, days, exclude_korean) ==
  [ q       |-> <<query>> \o FreshnessToken(days),
    raised  |-> response.kind = "status",
    results |-> IF response.kind # "ok" THEN <<>>
                ELSE SearchLoop(Slice(response.items, FetchLimit(max_results, exclude_korean)),
                                1, <<>>, max_results, exclude_korean) ]

\* q: the words of params["q"] as sent; raised: whether the call raised;
\* results: the list returned
search(response, query, max_results, days, exclude_korean) ==
  [ q       |-> <<query>> \o FreshnessToken(days),
    raised  |-> FALSE,
    results |-> IF response.kind # "ok" THEN <<>>
                ELSE SearchLoop(Slice(response.items, FetchLimit(max_results, exclude_korean)),
                                1, <<>>, max_results, exclude_korean) ]

(***************************************************************************)
(* NewsCollector.save_articles / load_articles                             *)
(*                                                                         *)
(* A file holds the JSON array json.dump writes: one object per article,   *)
(* each member's value as its JSON text. Whitespace (indent=2) is left     *)
(* out. Fields that are one word in the model (source, category, ...) are  *)
(* written as one opaque string token.                                     *)
(***************************************************************************)
\* fields of NewsArticle whose value is a text of the model
TextFields == {"title", "url", "description", "full_text"}

DigitChars == <<"0","1","2","3","4","5","6","7","8","9">>

\* json.dumps of a str: quotes around, `"` and `\` escaped
RECURSIVE Escaped(_)
Escaped(chars) ==
  IF chars = <<>> THEN <<>>
  ELSE IF Head(chars) \in {"\"", "\\"}
    THEN <<"\\", Head(chars)>> \o Escaped(Tail(chars))
  ELSE <<Head(chars)>> \o Escaped(Tail(chars))

JsonString(chars) == <<"\"">> \o Escaped(chars) \o <<"\"">>

RECURSIVE JsonInt(_)
JsonInt(n) ==
  IF n < 10 THEN <<DigitChars[n + 1]>>
  ELSE JsonInt(n \div 10) \o <<DigitChars[(n % 10) + 1]>>

JsonBool(b) == IF b THEN <<"t","r","u","e">> ELSE <<"f","a","l","s","e">>

RECURSIVE JsonStrings(_)
JsonStrings(items) ==
  IF items = <<>> THEN <<>>
  ELSE IF Len(items) = 1 THEN JsonString(items[1])
  ELSE JsonString(items[1]) \o <<",">> \o JsonStrings(Tail(items))

JsonArray(items) == <<"[">> \o JsonStrings(items) \o <<"]">>

\* asdict(a), every value as JSON text
DumpArticle(a) ==
  [ f \in DOMAIN a |->
      IF f \in TextFields THEN JsonString(a[f])
      ELSE IF f = "keywords" THEN JsonArray(a[f])
      ELSE IF f = "word_count" THEN JsonInt(a[f])
      ELSE IF f = "crawl_success" THEN JsonBool(a[f])
      ELSE << [ string |-> a[f] ] >> ]

\* json.load of a string that starts at text[i - 1] = `"`: its value and
\* the position after the closing quote
RECURSIVE ScanString(_, _, _)
ScanString(text, i, acc) ==
  IF text[i] = "\"" THEN [ value |-> acc, next |-> i + 1 ]
  ELSE IF text[i] = "\\" THEN ScanString(text, i + 2, Append(acc, text[i + 1]))
  ELSE ScanString(text, i + 1, Append(acc, text[i]))

ParseString(text) == ScanString(text, 2, <<>>).value

\* the strings of an array, from the element that starts at text[i] on
RECURSIVE ScanStrings(_, _, _)
ScanStrings(text, i, acc) ==
  IF text[i] = "]" THEN acc
  ELSE IF text[i] = "," THEN ScanStrings(text, i + 1, acc)
  ELSE ScanStrings(text, ScanString(text, i + 1, <<>>).next,
                   Append(acc, ScanString(text, i + 1, <<>>).value))

ParseArray(text) == ScanStrings(text, 2, <<>>)

DigitValue(c) == (CHOOSE d \in 1..10 : DigitChars[d] = c) - 1

RECURSIVE ParseInt(_)
ParseInt(digits) ==
  IF Len(digits) = 1 THEN DigitValue(digits[1])
  ELSE 10 * ParseInt(SubSeq(digits, 1, Len(digits) - 1)) + DigitValue(digits[Len(digits)])

ParseBool(text) == text = <<"t","r","u","e">>

\* NewsArticle(**item) for an object of the file
LoadArticle(item) ==
  [ f \in DOMAIN item |->
      IF f \in TextFields THEN ParseString(item[f])
      ELSE IF f = "keywords" THEN ParseArray(item[f])
      ELSE IF f = "word_count" THEN ParseInt(item[f])
      ELSE IF f = "crawl_success" THEN ParseBool(item[f])
      ELSE item[f][1].string ]

\* json.dump([asdict(a) for a in articles], f)
Dump(articles) == [ i \in 1..Len(articles) |-> DumpArticle(articles[i]) ]

\* [NewsArticle(**item) for item in json.load(f)]
Load(data) == [ i \in 1..Len(data) |-> LoadArticle(data[i]) ]

\* the path save_articles writes to: a name from the clock for an empty filepath
PathWritten(filepath) == IF filepath = "" THEN "output/news_ts.json" ELSE filepath

\* mutant of Written: the new objects are added to the file's earlier content
WrittenAppended(fs, filepath, articles) ==
  IF PathWritten(filepath) \in DOMAIN fs
    THEN [ fs EXCEPT ![PathWritten(filepath)] = @ \o Dump(articles) ]
    ELSE (PathWritten(filepath) :> Dump(articles)) @@ fs

\* the file system after open(fp, "w") and json.dump
Written(fs, filepath, articles) ==
  (PathWritten(filepath) :> Dump(articles)) @@ fs

(***************************************************************************)
(* Bounds and input sets                                                   *)
(***************************************************************************)
\* feed items delivered by all searches of one collect_industry_news,
\* collect_competitor_news or collect_by_company run
MaxHits == 3

\* feed items delivered by all searches of one collect_for_company run
MaxHitsComposite == 2

\* collect_competitor_news(..., max_per_company=3) as collect_for_company calls it
DefaultMaxPerCompany == 3

\* trend_kws[:3], reg_kws[:3]
KeywordsPerTopic == 3

\* comp_kws[:2]
KeywordsPerCompetitor == 2

\* rss.search(kw, max_results=2) in the topic loops and the competitor keyword loop
TopicMaxResults == 2

\* rss.search(company, max_results=3) for a competitor's name
CompetitorMaxResults == 3

\* rss.search(company, max_results=5) for the company's own name
CompanyMaxResults == 5

\* the caps (max_per_category, max_per_company) a caller passes
Caps == {1, 2}

CompetitorLists == { <<>>, <<"Foo">>, <<"Foo","Bar">> }

\* the competitors argument of collect_for_company: a list, or None (the default)
CompetitorArgs ==
  { [ none |-> FALSE, names |-> <<>> ],
    [ none |-> FALSE, names |-> <<"Foo">> ],
    [ none |-> TRUE, names |-> <<>> ] }

Industry == "ICT"

Company == "Acme"

\* longest article list handed to _deduplicate or _limit_per_category directly
MaxLen == 3

\* largest cap handed to _limit_per_category directly
MaxPer == 3

\* longest description, in words, handed to classify directly
MaxWords == 2

CategoryLabel ==
  [ c \in {"industry_trend", "competitor", "regulation", "company"} |->
      CASE c = "industry_trend" -> "L_industry_trend"
        [] c = "competitor"     -> "L_competitor"
        [] c = "regulation"     -> "L_regulation"
        [] c = "company"        -> "L_company" ]

\* links with and without query string and trailing slashes
Urls ==
  { <<"a">>, <<"a","/">>, <<"a","?","r">>, <<"a","/","?","r">>, <<"a","/","/">>,
    <<"a","?","r","?","s","/">>, <<"b">>, <<"b","/","c">>, <<"b","/","c","/">> }

\* article lists as the collection loops build them: the i-th was created i-th
UrlLists == UNION { [ 1..n -> Urls ] : n \in 0..MaxLen }

CategoryLists == UNION { [ 1..n -> DOMAIN CategoryLabel ] : n \in 0..MaxLen }

ArticlesWithUrls(urls) ==
  [ i \in 1..Len(urls) |->
      NewsArticle(RssItem(urls[i], <<>>), Industry, "industry_trend", "L_industry_trend", i) ]

ArticlesWithCategories(cats) ==
  [ i \in 1..Len(cats) |->
      NewsArticle(RssItem(<<"a">>, <<>>), Industry, cats[i], CategoryLabel[cats[i]], i) ]

Words ==
  { <<"b","a","n">>, <<"p","o","l","i","c","y">>, <<"l","a","u","n","c","h">>,
    <<"r","e","v","e","n","u","e">>, <<"m","a","r","k","e","t">>,
    <<"G","r","o","w","t","h">>, <<"I","P","O">>, <<"n","e","w","s">>,
    <<"uADDC","uC81C">> }

RECURSIVE Join(_)
Join(words) ==
  IF words = <<>> THEN <<>>
  ELSE IF Len(words) = 1 THEN words[1]
  ELSE words[1] \o <<" ">> \o Join(Tail(words))

Descriptions == { Join(ws) : ws \in UNION { [ 1..n -> Words ] : n \in 0..MaxWords } }

\* longest feed handed to search directly
MaxFeedLen == 4

\* largest max_results handed to search directly
MaxResultsArg == 2

\* how a GET of the feed can end
Feeds ==
  { [ kind |-> fk, items |-> <<>> ] : fk \in {"error", "status", "malformed"} }
  \cup { [ kind |-> "ok", items |-> f ] : f \in UNION { [ 1..n -> FeedItems ] : n \in 0..MaxFeedLen } }

\* values of `days` a caller passes, and their doubles as collect_for_company
\* passes them on to collect_competitor_news
\* the days arguments of collect_for_company (7 is the default)
ForCompanyDays == {3, 7}

\* collect_by_company: rss.search(company, max_results=max_results, days=14)
WrapperDays == 14

DaysArgs == {0, 1, 3, 4, 7, 14, 15, 16, 30}

Days == DaysArgs \cup { 2 * d : d \in DaysArgs }

Sources == { SourceWire, <<"K","B","S">>, <<"uC5F0","uD569","uB274","uC2A4">> }

Links == { <<"a">>, <<"c",".","k","r">>, <<"M","K",".","C","O","/","x">> }

Titles ==
  { <<>>, TitlePlain, TitleForty, TitleThirty, <<"uADDC","a","b">>,
    <<"o","n"," ","Y","t","n">> }

\* an article with quotes, backslash, comma and bracket in its texts
SavedQuoted ==
  [ NewsArticle(RssItem(<<"a","?","x">>, <<"s","a","y"," ","\"","h","i","\"">>),
                Industry, "regulation", "L_regulation", 1)
      EXCEPT !.title = <<"a","\\","b">>,
             !.full_text = <<"x",",","]","y">>,
             !.author = "desk",
             !.keywords = << <<"uADDC","uC81C">>, <<"k",",","\"">> >>,
             !.word_count = 4,
             !.crawl_success = TRUE ]

\* an article as _process_result makes it without crawling
SavedPlain == NewsArticle(RssItem(<<"b">>, <<>>), Industry, "company", "L_company", 2)

SavedLong ==
  [ NewsArticle(RssItem(<<"c">>, DescBan), Industry, "competitor", "L_competitor", 3)
      EXCEPT !.keywords = << <<"uC2DC","uC7A5">> >>,
             !.word_count = 120,
             !.crawl_success = TRUE ]

\* the article lists handed to save_articles
SavedLists ==
  { <<>>, <<SavedQuoted>>, <<SavedPlain, SavedQuoted>>, <<SavedQuoted, SavedLong, SavedPlain>> }

\* the filepath arguments; "" is the default, for which save_articles makes up a name
Paths == {"", "p.json", "q.json"}

\* save_articles calls in a row
MaxSaves == 2

BundleKeys == <<"industry_trend", "competitor", "regulation", "company_news">>

(***************************************************************************)
(* State                                                                   *)
(***************************************************************************)
VARIABLES
  crawl_body,     \* NewsCollector.crawl_body (crawl_body and HAS_TRAFILATURA)
  op,             \* the public operation in progress and its arguments
  pc,             \* position in the running operation
  k,              \* index of the keyword loop in progress
  ci,             \* index into competitors
  all_articles,   \* the list the running (sub-)collection accumulates
  industry_news,  \* collect_industry_news: articles as collected, and the list returned
  comp_news,      \* collect_competitor_news: articles as collected, and the list returned
  result,         \* the bundle collect_for_company builds
  ret,            \* value returned by the public operation
  clock,          \* datetime.now(), one tick per article created
  crawled_count,  \* ArticleCrawler._crawled_count
  fetched,        \* feed items delivered so far
  linked,         \* feed items delivered so far that carry a link
  files,          \* the file system: path -> content written by save_articles
  calls,          \* the sub-collections, rss.search calls and pauses of the running operation
  leads,          \* LeadCRM: the list in data/crm/leads.json
  today           \* datetime.now(), the day

vars == << crawl_body, op, pc, k, ci, all_articles, industry_news, comp_news,
           result, ret, clock, crawled_count, fetched, linked, files, calls, leads, today >>

\* the stores outside the collector object
\* the lead CRM's store and clock
crm == << leads, today >>

\* what outlives a collection run
disk == << files, crm >>

stores == << disk, calls >>

NoCall == [ called |-> FALSE, collected |-> <<>>, returned |-> <<>> ]

EmptyBundle ==
  [ key \in Range(BundleKeys) \cup {"all"} |-> <<>> ]

\* the direct calls of the pure helpers, with their arguments
HelperCalls ==
  { [ name |-> "_deduplicate", articles |-> ArticlesWithUrls(urls) ] : urls \in UrlLists }
  \cup
  { [ name |-> "_limit_per_category", articles |-> ArticlesWithCategories(cats),
      max_per |-> max_per ] : cats \in CategoryLists, max_per \in 0..MaxPer }
  \cup
  { [ name |-> "classify",
      article |-> NewsArticle([ RssItem(<<"a">>, d) EXCEPT !.title = t ], Industry,
                              "company", "L_company", 1) ] :
      t \in {TitlePlain, <<"I","P","O">>}, d \in Descriptions }
  \cup
  { [ name |-> "search", response |-> r, query |-> "query", max_results |-> m,
      days |-> 7, exclude_korean |-> e ] :
      r \in Feeds, m \in 0..MaxResultsArg, e \in BOOLEAN }
  \cup
  { [ name |-> "search", response |-> r, query |-> "query", max_results |-> 1,
      days |-> d, exclude_korean |-> TRUE ] :
      r \in { f \in Feeds : Len(f.items) = 0 }, d \in Days }
  \cup
  { [ name |-> "_is_korean_source", source |-> src, url |-> u, title |-> t ] :
      src \in Sources, u \in Links, t \in Titles }
  \cup
  { [ name |-> "extract_article", outcome |-> o ] : o \in CrawlOutcomes }
  \cup
  { [ name |-> "_resolve_google_news_url", url |-> u, head |-> h ] :
      u \in { <<"a">>, GoogleNewsHost \o <<"/","a">> },
      h \in { [ raised |-> TRUE, url |-> <<>> ], [ raised |-> FALSE, url |-> <<"b">> ] } }
  \cup
  { [ name |-> "save_articles", articles |-> l, filepath |-> p, saves |-> <<>> ] :
      l \in SavedLists, p \in Paths }
  \cup
  { [ name |-> "_process_result", rss_item |-> i, category |-> c, outcome |-> o ] :
      i \in Items, c \in {"regulation", "company"}, o \in Outcomes \cup {HttpOutcome} }

Init ==
  /\ \E crawl_arg \in BOOLEAN, HAS_TRAFILATURA \in BOOLEAN :
       crawl_body = (crawl_arg /\ HAS_TRAFILATURA)
  /\ \/ op = [ name |-> "none" ] /\ pc = "idle"
     \/ op \in HelperCalls /\ pc = "call"
  /\ k = 0
  /\ ci = 0
  /\ all_articles = <<>>
  /\ industry_news = NoCall
  /\ comp_news = NoCall
  /\ result = EmptyBundle
  /\ ret = <<>>
  /\ clock = 0
  /\ crawled_count = 0
  /\ fetched = 0
  /\ linked = 0
  /\ files = <<>>
  /\ calls = <<>>
  /\ leads = <<>>
  /\ today = 1

(***************************************************************************)
(* One rss.search call and the _process_result loop over its results       *)
(***************************************************************************)
\* result lists a search with this max_results can return now
Budget(name) == IF name = "collect_for_company" THEN MaxHitsComposite ELSE MaxHits

Responses(name, max_results) ==
  UNION { [ 1..n -> Items ] : n \in 0..Min(max_results, Budget(name) - fetched) }

OutcomesFor(results) ==
  [ 1..Len(results) -> IF crawl_body THEN Outcomes ELSE {NoOutcome} ]

\* article.company = company, set by the competitor and company loops
Tagged(made, ctx) ==
  IF made # <<>> /\ ctx.set_company
    THEN << [ made[1] EXCEPT !.company = ctx.company ] >>
    ELSE made

RECURSIVE ProcessFrom(_, _, _, _, _, _)
RECURSIVE ProcessNext(_, _, _, _, _, _, _)
ProcessFrom(results, outcomes, i, ctx, now, acc) ==
  IF i > Len(results) THEN acc
  ELSE ProcessNext(results, outcomes, i, ctx, now, acc,
                   Tagged(_process_result(results[i], ctx.industry, ctx.category,
                                          ctx.category_label, crawl_body, outcomes[i], now),
                          ctx))

\* `if article: all_articles.append(article)`, then the next hit
ProcessNext(results, outcomes, i, ctx, now, acc, made) ==
  ProcessFrom(results, outcomes, i + 1, ctx, now + Len(made), acc \o made)

Processed(results, outcomes, ctx) == ProcessFrom(results, outcomes, 1, ctx, clock, <<>>)

Successes(articles) == Cardinality({ i \in 1..Len(articles) : articles[i].crawl_success })

\* bookkeeping common to every search step
Account(results, articles) ==
  /\ fetched' = fetched + Len(results)
  /\ linked' = linked + Cardinality({ i \in 1..Len(results) : results[i].url # <<>> })
  /\ clock' = clock + Len(articles)
  /\ crawled_count' = crawled_count + Successes(articles)

TopicCtx(category, category_label) ==
  [ industry |-> op.industry, category |-> category, category_label |-> category_label,
    set_company |-> FALSE, company |-> "" ]

CompanyCtx(industry, category, category_label, company) ==
  [ industry |-> industry, category |-> category, category_label |-> category_label,
    set_company |-> TRUE, company |-> company ]

\* self.rss.search(query, max_results=..., days=...)
SearchCall(query, max_results, days) ==
  [ step |-> "search", query |-> query, max_results |-> max_results, days |-> days ]

\* time.sleep(0.5)
Pause == [ step |-> "sleep", query |-> "", max_results |-> 0, days |-> 0 ]

\* self.collect_industry_news(industry, days, max_per_category)
IndustryCall(industry, days, max_per_category) ==
  [ step |-> "collect_industry_news", industry |-> industry, days |-> days,
    max_per_category |-> max_per_category ]

\* self.collect_competitor_news(competitors, industry, days)
CompetitorCall(competitors, industry, days) ==
  [ step |-> "collect_competitor_news", competitors |-> competitors,
    industry |-> industry, days |-> days ]

\* mutant of CompetitorLookback: the competitors get the caller's own lookback
CompetitorLookbackSameAsCaller(name, days) == days

\* the lookback of the competitor searches: collect_for_company passes days * 2
CompetitorLookback(name, days) ==
  IF name = "collect_for_company" THEN days * 2 ELSE days

(***************************************************************************)
(* Entry into the public operations                                        *)
(***************************************************************************)
CallIndustryNews ==
  /\ pc = "idle"
  /\ \E cap \in Caps :
       op' = [ name |-> "collect_industry_news", industry |-> Industry, days |-> 7,
               max_per_category |-> cap ]
  /\ pc' = "trend"
  /\ k' = 1
  /\ all_articles' = <<>>
  /\ calls' = <<>>
  /\ UNCHANGED << crawl_body, ci, industry_news, comp_news, result, ret, clock,
                  crawled_count, fetched, linked, disk >>

CallCompetitorNews ==
  /\ pc = "idle"
  /\ \E competitors \in CompetitorLists, cap \in Caps :
       /\ op' = [ name |-> "collect_competitor_news", competitors |-> competitors,
                  industry |-> Industry, days |-> 14, max_per_company |-> cap ]
       /\ pc' = IF competitors = <<>> THEN "competitor_return" ELSE "competitor_name"
  /\ ci' = 1
  /\ all_articles' = <<>>
  /\ calls' = <<>>
  /\ UNCHANGED << crawl_body, k, industry_news, comp_news, result, ret, clock,
                  crawled_count, fetched, linked, disk >>

CallForCompany ==
  /\ pc = "idle"
  /\ \E competitors \in CompetitorArgs, cap \in Caps, days \in ForCompanyDays :
       /\ op' = [ name |-> "collect_for_company", company |-> Company, industry |-> Industry,
                  competitors |-> competitors.names, competitors_none |-> competitors.none,
                  days |-> days, max_per_category |-> cap ]
       /\ calls' = << IndustryCall(Industry, days, cap) >>
  /\ result' = EmptyBundle
  /\ pc' = "trend"
  /\ k' = 1
  /\ all_articles' = <<>>
  /\ UNCHANGED << crawl_body, ci, industry_news, comp_news, ret, clock,
                  crawled_count, fetched, linked, disk >>

(***************************************************************************)
(* collect_industry_news                                                   *)
(***************************************************************************)
SearchTrend ==
  /\ pc = "trend"
  /\ \E results \in Responses(op.name, TopicMaxResults) : \E outcomes \in OutcomesFor(results) :
       \E articles \in { Processed(results, outcomes, TopicCtx("industry_trend", "L_industry_trend")) } :
           /\ all_articles' = all_articles \o articles
           /\ Account(results, articles)
  /\ pc' = "trend_sleep"
  /\ calls' = Append(calls, SearchCall("trend", TopicMaxResults, op.days))
  /\ UNCHANGED << crawl_body, op, k, ci, industry_news, comp_news, result, ret, disk >>

SearchRegulation ==
  /\ pc = "regulation"
  /\ \E results \in Responses(op.name, TopicMaxResults) : \E outcomes \in OutcomesFor(results) :
       \E articles \in { Processed(results, outcomes, TopicCtx("regulation", "L_regulation")) } :
           /\ all_articles' = all_articles \o articles
           /\ Account(results, articles)
  /\ pc' = "regulation_sleep"
  /\ calls' = Append(calls, SearchCall("regulation", TopicMaxResults, op.days))
  /\ UNCHANGED << crawl_body, op, k, ci, industry_news, comp_news, result, ret, disk >>

\* time.sleep(0.5) at the end of a loop body, and the loop's next iteration or exit
Sleep ==
  /\ pc \in {"trend_sleep", "regulation_sleep", "competitor_sleep"}
  /\ IF pc = "trend_sleep"
       THEN /\ pc' = IF k < KeywordsPerTopic THEN "trend" ELSE "regulation"
            /\ k' = IF k < KeywordsPerTopic THEN k + 1 ELSE 1
            /\ ci' = ci
     ELSE IF pc = "regulation_sleep"
       THEN /\ pc' = IF k < KeywordsPerTopic THEN "regulation" ELSE "industry_return"
            /\ k' = IF k < KeywordsPerTopic THEN k + 1 ELSE k
            /\ ci' = ci
     ELSE /\ pc' = IF ci < Len(op.competitors) THEN "competitor_name" ELSE "competitor_return"
          /\ ci' = IF ci < Len(op.competitors) THEN ci + 1 ELSE ci
          /\ k' = k
  /\ calls' = Append(calls, Pause)
  /\ UNCHANGED << crawl_body, op, all_articles, industry_news, comp_news, result, ret,
                  clock, crawled_count, fetched, linked, disk >>

RECURSIVE AppendByCategory(_, _)
AppendByCategory(bundle, articles) ==
  IF articles = <<>> THEN bundle
  ELSE AppendByCategory(
         [ bundle EXCEPT ![Head(articles).category] = Append(@, Head(articles)) ],
         Tail(articles))

\* dedup, cap, return; in collect_for_company the caller files the list by category
IndustryReturn ==
  /\ pc = "industry_return"
  /\ LET limited == _limit_per_category(_deduplicate(all_articles), op.max_per_category)
     IN  /\ industry_news' = [ called |-> TRUE, collected |-> all_articles, returned |-> limited ]
         /\ IF op.name = "collect_industry_news"
              THEN /\ ret' = limited
                   /\ pc' = "done"
                   /\ UNCHANGED << result, all_articles, ci, calls >>
              ELSE /\ result' = AppendByCategory(result, limited)
                   /\ ret' = ret
                   /\ all_articles' = <<>>
                   /\ ci' = 1
                   /\ pc' = IF ~op.competitors_none /\ op.competitors # <<>>
                              THEN "competitor_name" ELSE "company_search"
                   /\ calls' = IF ~op.competitors_none /\ op.competitors # <<>>
                                 THEN Append(calls, CompetitorCall(op.competitors, op.industry,
                                                      CompetitorLookback(op.name, op.days)))
                                 ELSE calls
  /\ UNCHANGED << crawl_body, op, k, comp_news, clock, crawled_count, fetched, linked, disk >>

(***************************************************************************)
(* collect_competitor_news                                                 *)
(***************************************************************************)
SearchCompetitorName ==
  /\ pc = "competitor_name"
  /\ \E results \in Responses(op.name, CompetitorMaxResults) : \E outcomes \in OutcomesFor(results) :
       \E articles \in { Processed(results, outcomes, CompanyCtx(op.industry, "competitor", "L_competitor", op.competitors[ci])) } :
           /\ all_articles' = all_articles \o articles
           /\ Account(results, articles)
  /\ pc' = "competitor_keyword"
  /\ k' = 1
  /\ calls' = Append(calls, SearchCall("competitor_name", CompetitorMaxResults,
                                       CompetitorLookback(op.name, op.days)))
  /\ UNCHANGED << crawl_body, op, ci, industry_news, comp_news, result, ret, disk >>

SearchCompetitorKeyword ==
  /\ pc = "competitor_keyword"
  /\ \E results \in Responses(op.name, TopicMaxResults) : \E outcomes \in OutcomesFor(results) :
       \E articles \in { Processed(results, outcomes, CompanyCtx(op.industry, "competitor", "L_competitor", op.competitors[ci])) } :
           /\ all_articles' = all_articles \o articles
           /\ Account(results, articles)
  /\ pc' = IF k < KeywordsPerCompetitor THEN "competitor_keyword" ELSE "competitor_sleep"
  /\ k' = IF k < KeywordsPerCompetitor THEN k + 1 ELSE k
  /\ calls' = Append(calls, SearchCall("competitor_keyword", TopicMaxResults,
                                       CompetitorLookback(op.name, op.days)))
  /\ UNCHANGED << crawl_body, op, ci, industry_news, comp_news, result, ret, disk >>

CompetitorCap ==
  IF op.name = "collect_competitor_news" THEN op.max_per_company ELSE DefaultMaxPerCompany

CompetitorReturn ==
  /\ pc = "competitor_return"
  /\ LET limited == LimitPerCompany(_deduplicate(all_articles), CompetitorCap)
     IN  /\ comp_news' = [ called |-> TRUE, collected |-> all_articles, returned |-> limited ]
         /\ IF op.name = "collect_competitor_news"
              THEN /\ ret' = limited
                   /\ pc' = "done"
                   /\ UNCHANGED << result, all_articles >>
              ELSE /\ result' = [ result EXCEPT !["competitor"] = @ \o limited ]
                   /\ ret' = ret
                   /\ all_articles' = <<>>
                   /\ pc' = "company_search"
  /\ UNCHANGED << crawl_body, op, k, ci, industry_news, clock, crawled_count, fetched, linked, stores >>

(***************************************************************************)
(* collect_for_company: the company's own news, and the bundle's `all`     *)
(***************************************************************************)
\* mutant of WithAll: company_news is left out of `all`
WithAllButCompanyNews(bundle) ==
  [ bundle EXCEPT !["all"] = @ \o bundle["industry_trend"] \o bundle["competitor"]
                               \o bundle["regulation"] ]

WithAll(bundle) ==
  [ bundle EXCEPT !["all"] = @ \o Flatten([ i \in 1..Len(BundleKeys) |-> bundle[BundleKeys[i]] ]) ]

SearchCompany ==
  /\ pc = "company_search"
  /\ \E results \in Responses(op.name, CompanyMaxResults) : \E outcomes \in OutcomesFor(results) :
       \E articles \in { Processed(results, outcomes,
                                   CompanyCtx(op.industry, "company", "L_company", op.company)) } :
         \E bundle \in { WithAll([ result EXCEPT !["company_news"] = @ \o articles ]) } :
           /\ result' = bundle
           /\ ret' = bundle
           /\ Account(results, articles)
  /\ pc' = "done"
  /\ calls' = Append(calls, SearchCall("company", CompanyMaxResults, op.days))
  /\ UNCHANGED << crawl_body, op, k, ci, all_articles, industry_news, comp_news, disk >>

(***************************************************************************)
(* NewsCollectorWrapper.collect_by_company                                 *)
(***************************************************************************)
CollectByCompany ==
  /\ pc = "idle"
  /\ \E max_results \in 1..CompetitorMaxResults :
       /\ op' = [ name |-> "collect_by_company", company |-> Company,
                  max_results |-> max_results ]
       /\ \E results \in Responses("collect_by_company", max_results) : \E outcomes \in OutcomesFor(results) :
            \E articles \in { Processed(results, outcomes,
                                        CompanyCtx("other", "company", "L_company", Company)) } :
                /\ ret' = articles
                /\ Account(results, articles)
  /\ pc' = "done"
  /\ calls' = << SearchCall("company", op'.max_results, WrapperDays) >>
  /\ UNCHANGED << crawl_body, k, ci, all_articles, industry_news, comp_news, result, disk >>

\* NewsCollectorWrapper.collect_for_company when news_collector_1 could not be
\* imported (self._collector is None): the literal empty bundle
WrapperForCompanyWithoutCollector ==
  /\ pc = "idle"
  /\ \E competitors \in CompetitorArgs, cap \in Caps :
       op' = [ name |-> "collect_for_company", company |-> Company, industry |-> Industry,
               competitors |-> competitors.names, competitors_none |-> competitors.none,
               days |-> 14, max_per_category |-> cap ]
  /\ ret' = [ industry_trend |-> <<>>, competitor |-> <<>>, regulation |-> <<>>,
              company_news |-> <<>>, all |-> <<>> ]
  /\ pc' = "done"
  /\ UNCHANGED << crawl_body, k, ci, all_articles, industry_news, comp_news, result,
                  clock, crawled_count, fetched, linked, stores >>

(***************************************************************************)
(* Direct calls of the pure helpers                                        *)
(***************************************************************************)
Deduplicate ==
  /\ pc = "call" /\ op.name = "_deduplicate"
  /\ ret' = _deduplicate(op.articles)
  /\ pc' = "done"
  /\ UNCHANGED << crawl_body, op, k, ci, all_articles, industry_news, comp_news, result,
                  clock, crawled_count, fetched, linked, stores >>

LimitPerCategory ==
  /\ pc = "call" /\ op.name = "_limit_per_category"
  /\ ret' = _limit_per_category(op.articles, op.max_per)
  /\ pc' = "done"
  /\ UNCHANGED << crawl_body, op, k, ci, all_articles, industry_news, comp_news, result,
                  clock, crawled_count, fetched, linked, stores >>

Classify ==
  /\ pc = "call" /\ op.name = "classify"
  /\ ret' = classify(op.article)
  /\ pc' = "done"
  /\ UNCHANGED << crawl_body, op, k, ci, all_articles, industry_news, comp_news, result,
                  clock, crawled_count, fetched, linked, stores >>

Search ==
  /\ pc = "call" /\ op.name = "search"
  /\ ret' = search(op.response, op.query, op.max_results, op.days, op.exclude_korean)
  /\ pc' = "done"
  /\ UNCHANGED << crawl_body, op, k, ci, all_articles, industry_news, comp_news, result,
                  clock, crawled_count, fetched, linked, stores >>

IsKoreanSource ==
  /\ pc = "call" /\ op.name = "_is_korean_source"
  /\ ret' = _is_korean_source(op.source, op.url, op.title)
  /\ pc' = "done"
  /\ UNCHANGED << crawl_body, op, k, ci, all_articles, industry_news, comp_news, result,
                  clock, crawled_count, fetched, linked, stores >>

ExtractArticle ==
  /\ pc = "call" /\ op.name = "extract_article"
  /\ ret' = extract_article(op.outcome)
  /\ crawled_count' = crawled_count + (IF extract_article(op.outcome).success THEN 1 ELSE 0)
  /\ pc' = "done"
  /\ UNCHANGED << crawl_body, op, k, ci, all_articles, industry_news, comp_news, result,
                  clock, fetched, linked, stores >>

ResolveGoogleNewsUrl ==
  /\ pc = "call" /\ op.name = "_resolve_google_news_url"
  /\ ret' = _resolve_google_news_url(op.url, op.head)
  /\ pc' = "done"
  /\ UNCHANGED << crawl_body, op, k, ci, all_articles, industry_news, comp_news, result,
                  clock, crawled_count, fetched, linked, stores >>

\* op.saves: the save_articles calls so far, as (path written, list) pairs
SaveArticles ==
  /\ pc = "call" /\ op.name = "save_articles"
  /\ files' = Written(files, op.filepath, op.articles)
  /\ op' = [ op EXCEPT !.saves = Append(@, [ path |-> PathWritten(op.filepath),
                                             articles |-> op.articles ]) ]
  /\ pc' = "saved"
  /\ UNCHANGED << crawl_body, k, ci, all_articles, industry_news, comp_news, result, ret,
                  clock, crawled_count, fetched, linked, calls, crm >>

SaveArticlesAgain ==
  /\ pc = "saved" /\ Len(op.saves) < MaxSaves
  /\ \E l \in SavedLists, p \in Paths :
       /\ files' = Written(files, p, l)
       /\ op' = [ name |-> "save_articles", articles |-> l, filepath |-> p,
                  saves |-> Append(op.saves, [ path |-> PathWritten(p), articles |-> l ]) ]
  /\ pc' = "saved"
  /\ UNCHANGED << crawl_body, k, ci, all_articles, industry_news, comp_news, result, ret,
                  clock, crawled_count, fetched, linked, calls, crm >>

\* open() of a path that does not exist raises FileNotFoundError
LoadArticles ==
  /\ pc = "saved"
  /\ \E p \in Paths :
       /\ op' = [ name |-> "load_articles", filepath |-> p, saves |-> op.saves ]
       /\ ret' = IF p \in DOMAIN files
                   THEN [ raised |-> FALSE, articles |-> Load(files[p]) ]
                   ELSE [ raised |-> TRUE, articles |-> <<>> ]
  /\ pc' = "done"
  /\ UNCHANGED << crawl_body, k, ci, all_articles, industry_news, comp_news, result,
                  clock, crawled_count, fetched, linked, stores >>

\* one _process_result call
ProcessResult ==
  /\ pc = "call" /\ op.name = "_process_result"
  /\ \E made \in { _process_result(op.rss_item, Industry, op.category,
                                     CategoryLabel[op.category], crawl_body,
                                     op.outcome, clock) } :
       /\ ret' = made
       /\ clock' = clock + Len(made)
       /\ crawled_count' = crawled_count + Successes(made)
  /\ pc' = "done"
  /\ UNCHANGED << crawl_body, op, k, ci, all_articles, industry_news, comp_news, result,
                  fetched, linked, stores >>

Next ==
  \/ CallIndustryNews
  \/ CallCompetitorNews
  \/ CallForCompany
  \/ SearchTrend
  \/ SearchRegulation
  \/ Sleep
  \/ IndustryReturn
  \/ SearchCompetitorName
  \/ SearchCompetitorKeyword
  \/ CompetitorReturn
  \/ SearchCompany
  \/ CollectByCompany
  \/ WrapperForCompanyWithoutCollector
  \/ Deduplicate
  \/ LimitPerCategory
  \/ Classify
  \/ ProcessResult
  \/ Search
  \/ IsKoreanSource
  \/ ExtractArticle
  \/ ResolveGoogleNewsUrl
  \/ SaveArticles
  \/ SaveArticlesAgain
  \/ LoadArticles

Spec == Init /\ [][Next]_vars

(***************************************************************************)
(* Properties                                                              *)
(***************************************************************************)
NoDuplicateUrls(articles) ==
  \A i, j \in 1..Len(articles) :
     i # j => Normalize(articles[i].url) # Normalize(articles[j].url)

ForCompanyDone == pc = "done" /\ op.name = "collect_for_company"

\* C1: in the bundle collect_for_company returns, `all` holds no two articles
\* with equal normalized URLs, also across the sub-collections.
C1_AllHasNoDuplicateUrls ==
  ForCompanyDone => NoDuplicateUrls(ret["all"])

\* C2: the list collect_industry_news returns and the list
\* collect_competitor_news returns hold no two articles with the same
\* normalized URL.
C2_ReturnedListsHaveNoDuplicateUrls ==
  /\ industry_news.called => NoDuplicateUrls(industry_news.returned)
  /\ comp_news.called => NoDuplicateUrls(comp_news.returned)

\* the same link was delivered for two competitors, and one copy was dropped
C2_Witness ==
  /\ comp_news.called
  /\ \E i, j \in 1..Len(comp_news.collected) :
        /\ i < j
        /\ Normalize(comp_news.collected[i].url) = Normalize(comp_news.collected[j].url)
        /\ comp_news.collected[i].url # comp_news.collected[j].url
        /\ comp_news.collected[i].company # comp_news.collected[j].company
  /\ comp_news.returned # <<>>

ByCompanyDone == pc = "done" /\ op.name = "collect_by_company"

\* C3: every article of the company-own-name search (collect_for_company
\* step 3, collect_by_company of the wrapper) ends with category `company`,
\* whatever its text contains.
C3_CompanySearchKeepsCategory ==
  /\ ForCompanyDone => \A a \in Range(ret["company_news"]) : a.category = "company"
  /\ ByCompanyDone => \A a \in Range(ret) : a.category = "company"

\* C4: every article collect_competitor_news returns has category
\* `competitor` and carries the name of a competitor that was searched.
C4_CompetitorArticlesKeepCategoryAndCompany ==
  comp_news.called =>
    \A a \in Range(comp_news.returned) :
       a.category = "competitor" /\ a.company \in Range(op.competitors)

\* C5: the list collect_industry_news returns is in processing order: an
\* article created earlier stands before every article created later, and
\* every returned article is one of the collected ones.
C5_IndustryOutputInProcessingOrder ==
  industry_news.called =>
    /\ \A i, j \in 1..Len(industry_news.returned) :
          i < j => industry_news.returned[i].crawled_at < industry_news.returned[j].crawled_at
    /\ Range(industry_news.returned) \subseteq Range(industry_news.collected)

\* C6: collect_for_company returns a mapping with exactly the keys
\* industry_trend, competitor, regulation, company_news and all, and `all` is
\* the concatenation of the four other lists in that order.
C6_BundleIsFourListsAndTheirConcatenation ==
  ForCompanyDone =>
    /\ DOMAIN ret = {"industry_trend", "competitor", "regulation", "company_news", "all"}
    /\ ret["all"] = ret["industry_trend"] \o ret["competitor"] \o ret["regulation"]
                      \o ret["company_news"]
    /\ Len(ret["all"]) = Len(ret["industry_trend"]) + Len(ret["competitor"])
                           + Len(ret["regulation"]) + Len(ret["company_news"])

\* no competitors were given, and both the industry search and the company
\* search contributed
C6_Witness ==
  /\ ForCompanyDone
  /\ op.competitors = <<>>
  /\ ret["industry_trend"] \o ret["regulation"] # <<>>
  /\ ret["company_news"] # <<>>

\* the positions of the first occurrence of each normalized URL
FirstOccurrences(articles) ==
  { i \in 1..Len(articles) :
      \A j \in 1..(i - 1) : Normalize(articles[j].url) # Normalize(articles[i].url) }

\* the elements of s at the positions in I, in order
AtPositions(s, I) ==
  LET nth(n) == CHOOSE i \in I : Cardinality({ j \in I : j < i }) = n - 1
  IN  [ n \in 1..Cardinality(I) |-> s[nth(n)] ]

DedupDone == pc = "done" /\ op.name = "_deduplicate"

\* C7: of N articles with k distinct normalized URLs _deduplicate returns
\* exactly k, each the first one carrying its normalized URL, in input order;
\* applied to its own output it changes nothing.
C7_DedupKeepsFirstOccurrencesInOrder ==
  DedupDone =>
    /\ Len(ret) = Cardinality({ Normalize(op.articles[i].url) : i \in 1..Len(op.articles) })
    /\ ret = AtPositions(op.articles, FirstOccurrences(op.articles))
    /\ _deduplicate(ret) = ret

\* a later article was dropped although its raw URL differs from the kept one,
\* and an article after the dropped one was kept
C7_Witness ==
  /\ DedupDone
  /\ Len(op.articles) = 3
  /\ Len(ret) = 2
  /\ op.articles[1].url # op.articles[2].url
  /\ Normalize(op.articles[1].url) = Normalize(op.articles[2].url)
  /\ ret[2] = op.articles[3]

InCategory(articles, cat) == SelectSeq(articles, LAMBDA a : a.category = cat)

LimitDone == pc = "done" /\ op.name = "_limit_per_category"

\* C8: the per-category cap keeps, of a category with g articles, exactly the
\* first min(g, c) in input order; so collect_industry_news returns at most
\* max_per_category articles of any category.
C8_CapKeepsFirstOfEachCategory ==
  /\ LimitDone =>
       \A cat \in DOMAIN CategoryLabel :
          LET g == Len(InCategory(op.articles, cat))
          IN  InCategory(ret, cat) = SubSeq(InCategory(op.articles, cat), 1, Min(g, op.max_per))
  /\ industry_news.called =>
       \A cat \in DOMAIN CategoryLabel :
          Len(InCategory(industry_news.returned, cat)) <= op.max_per_category

\* one category is cut by the cap, with an article of another category
\* standing between its two articles
C8_Witness ==
  /\ LimitDone
  /\ op.max_per = 1
  /\ Len(op.articles) = 3
  /\ op.articles[1].category = "regulation"
  /\ op.articles[2].category = "company"
  /\ op.articles[3].category = "regulation"
  /\ ret = << op.articles[1], op.articles[2] >>

WithCompany(articles, comp) == SelectSeq(articles, LAMBDA a : a.company = comp)

\* C9: collect_competitor_news deduplicates over all competitors first, then
\* returns of each competitor its first max_per_company surviving articles,
\* and nothing else.
C9_CompetitorDedupThenCapPerCompany ==
  comp_news.called =>
    LET cap       == IF op.name = "collect_competitor_news" THEN op.max_per_company
                     ELSE DefaultMaxPerCompany
        surviving == AtPositions(comp_news.collected, FirstOccurrences(comp_news.collected))
    IN  /\ \A comp \in Range(op.competitors) :
              WithCompany(comp_news.returned, comp) =
                SubSeq(WithCompany(surviving, comp), 1,
                       Min(Len(WithCompany(surviving, comp)), cap))
        /\ \A a \in Range(comp_news.returned) : a.company \in Range(op.competitors)

\* an article found for both competitors stays with the first one only, and
\* the first competitor's list is cut by the cap
C9_Witness ==
  /\ comp_news.called
  /\ op.name = "collect_competitor_news"
  /\ \E i, j \in 1..Len(comp_news.collected) :
        /\ i < j
        /\ Normalize(comp_news.collected[i].url) = Normalize(comp_news.collected[j].url)
        /\ comp_news.collected[i].company = "Foo"
        /\ comp_news.collected[j].company = "Bar"
  /\ WithCompany(comp_news.returned, "Bar") = <<>>
  /\ Len(WithCompany(comp_news.collected, "Foo")) = 2
  /\ Len(WithCompany(comp_news.returned, "Foo")) = 1

ClassifyDone == pc = "done" /\ op.name = "classify"

\* C10: with scores r (regulation), c (competitor), t (trend) of the text,
\* classify answers `regulation` iff r > c and r > t, otherwise `competitor`
\* iff c > t, otherwise `industry_trend`; so text without any keyword, and
\* every tie that neither of the first two wins, is `industry_trend`.
C10_ClassifyDecisionRule ==
  ClassifyDone =>
    LET s == Scores(op.article.title, op.article.description, op.article.full_text)
        r == s[1]
        c == s[2]
        t == s[3]
    IN  /\ ret.category \in {"regulation", "competitor", "industry_trend"}
        /\ ret.category = "regulation" <=> (r > c /\ r > t)
        /\ ret.category = "competitor" <=> (~(r > c /\ r > t) /\ c > t)
        /\ (r = 0 /\ c = 0 /\ t = 0) => ret.category = "industry_trend"
        /\ ret.category_label = CategoryLabel[ret.category]

\* regulation ties with competitor above trend: the answer is `competitor`
C10_Witness ==
  /\ ClassifyDone
  /\ LET s == Scores(op.article.title, op.article.description, op.article.full_text)
     IN  s[1] = 1 /\ s[2] = 1 /\ s[3] = 0
  /\ ret.category = "competitor"

(***************************************************************************)
(* Keyword scoring and letter case                                         *)
(***************************************************************************)
\* number of keywords of the list that occur in the text when both sides are lowercased
CaseInsensitiveScore(kws, text_lower) ==
  Cardinality({ i \in 1..Len(kws) : Contains(text_lower, Lower(kws[i])) })

\* C11: every keyword of the three lists that occurs in title + description +
\* the first 500 body characters under case-insensitive comparison counts for
\* its list's score, the keywords written with capitals (M&A, IPO) included,
\* and the category is decided on those scores.
C11_KeywordScoringIsCaseInsensitive ==
  ClassifyDone =>
    LET text_lower == ClassifyText(op.article.title, op.article.description,
                                   op.article.full_text)
        r == CaseInsensitiveScore(REGULATION_KEYWORDS, text_lower)
        c == CaseInsensitiveScore(COMPETITOR_KEYWORDS, text_lower)
        t == CaseInsensitiveScore(TREND_KEYWORDS, text_lower)
    IN  /\ Scores(op.article.title, op.article.description, op.article.full_text)
             = <<r, c, t>>
        /\ ret.category = Decide(r, c, t)[1]

(***************************************************************************)
(* Article invariants of the collection results                            *)
(***************************************************************************)
ListReturned ==
  pc = "done" /\ op.name \in {"collect_industry_news", "collect_competitor_news",
                              "collect_by_company", "_process_result"}

\* the articles of the value a finished operation returned
Returned ==
  IF ListReturned THEN Range(ret)
  ELSE IF ForCompanyDone THEN UNION { Range(ret[key]) : key \in DOMAIN ret }
  ELSE {}

\* every article the collector holds or has returned
Produced ==
  Returned \cup Range(all_articles)
    \cup Range(industry_news.collected) \cup Range(industry_news.returned)
    \cup Range(comp_news.collected) \cup Range(comp_news.returned)
    \cup UNION { Range(result[key]) : key \in DOMAIN result }

\* C12: every article of a list returned by collect_industry_news,
\* collect_competitor_news or collect_for_company (and of the lists they are
\* built from) has one of the four categories, never an empty one, whether
\* the classifier ran on it or not.
C12_CategoryIsOneOfFour ==
  \A a \in Produced :
     a.category \in {"industry_trend", "competitor", "regulation", "company"}

\* a returned bundle with an article the classifier did not touch and one it classified
C12_Witness ==
  /\ ForCompanyDone
  /\ \E a, b \in Range(ret["all"]) :
        /\ a.description = <<>> /\ a.full_text = <<>> /\ a.category = "company"
        /\ b.description # <<>> /\ b.category = "regulation"

\* C13: crawl_success implies a non-empty full_text and word_count = len(full_text).
C13_CrawlSuccessMeansTextAndWordCount ==
  \A a \in Produced :
     a.crawl_success => (a.full_text # <<>> /\ a.word_count = Len(a.full_text))

\* a collection returned an article whose body was extracted
C13_Witness ==
  /\ pc = "done" /\ op.name = "collect_competitor_news"
  /\ \E a \in Range(ret) : a.crawl_success /\ a.word_count > MinBodyLen

\* C14: every article has a non-empty url; a hit without link gives no article,
\* so none reaches dedup, cap or a returned list.
C14_EveryArticleHasUrl ==
  /\ \A a \in Produced : a.url # <<>>
  /\ (pc = "done" /\ op.name = "_process_result" /\ op.rss_item.url = <<>>) => ret = <<>>

\* a search delivered a hit without link next to one with a link
C14_Witness ==
  /\ pc = "done" /\ op.name = "collect_industry_news"
  /\ fetched > linked
  /\ ret # <<>>

ExtractionSkippedOrFailed == ~crawl_body \/ ~extract_article(op.outcome).success

\* C15: when extraction was skipped (crawling off or library missing) or failed
\* (a too-short extraction with partial text included), the article has
\* crawl_success false, empty full_text, word_count 0 and no keywords.
C15_NoBodyWithoutSuccessfulExtraction ==
  /\ (pc = "done" /\ op.name = "_process_result" /\ ExtractionSkippedOrFailed) =>
       \A a \in Range(ret) :
          /\ ~a.crawl_success
          /\ a.full_text = <<>>
          /\ a.word_count = 0
          /\ a.keywords = <<>>
  /\ \A a \in Produced :
       /\ ~crawl_body => ~a.crawl_success
       /\ ~a.crawl_success => (a.full_text = <<>> /\ a.word_count = 0 /\ a.keywords = <<>>)

\* the extraction returned text that is too short, and the article was made
C15_Witness ==
  /\ pc = "done" /\ op.name = "_process_result"
  /\ crawl_body
  /\ op.outcome.kind = "text" /\ op.outcome.result = BodyShort
  /\ ret # <<>>

\* C16: when no extraction of a run succeeded, every hit with a link is still
\* an article, the returned list is the dedup-then-cap of those articles, and
\* it is non-empty as soon as one hit had a link and the cap is at least 1.
C16_ExtractionFailureKeepsArticles ==
  (pc = "done" /\ crawled_count = 0) =>
    CASE op.name = "collect_industry_news" ->
           /\ Len(industry_news.collected) = linked
           /\ ret = _limit_per_category(_deduplicate(industry_news.collected),
                                        op.max_per_category)
           /\ (linked >= 1 /\ op.max_per_category >= 1) => ret # <<>>
      [] op.name = "collect_competitor_news" ->
           /\ Len(comp_news.collected) = linked
           /\ ret = LimitPerCompany(_deduplicate(comp_news.collected), op.max_per_company)
           /\ (linked >= 1 /\ op.max_per_company >= 1) => ret # <<>>
      [] op.name = "collect_by_company" -> Len(ret) = linked
      [] op.name = "collect_for_company" ->
           Len(industry_news.collected) + Len(comp_news.collected)
             + Len(ret["company_news"]) = linked
      [] OTHER -> TRUE

\* crawling is on, every extraction failed, and the hits are returned
C16_Witness ==
  /\ pc = "done" /\ op.name = "collect_industry_news"
  /\ crawl_body /\ crawled_count = 0
  /\ linked >= 2 /\ fetched > linked
  /\ Len(ret) >= 2

(***************************************************************************)
(* GoogleNewsRSS.search and the locale filter                              *)
(***************************************************************************)
SearchDone == pc = "done" /\ op.name = "search"

\* where a keyword-level search step of a collection loop goes next
AfterSearch ==
  [ p \in {"trend", "regulation", "competitor_name", "competitor_keyword"} |->
      CASE p = "trend"              -> {"trend_sleep"}
        [] p = "regulation"         -> {"regulation_sleep"}
        [] p = "competitor_name"    -> {"competitor_keyword"}
        [] p = "competitor_keyword" -> {"competitor_keyword", "competitor_sleep"} ]

\* C17: a search whose request fails, is answered with a status other than
\* 200, or whose payload does not parse returns the empty list and raises
\* nothing; a collection loop that gets an empty list keeps what it has
\* collected and goes on with its next search, so every hit with a link of
\* the other searches is among the collected articles when the loop ends.
C17_FailedSearchIsEmptyAndLoopContinues ==
  /\ [](SearchDone => ~ret.raised)
  /\ []((SearchDone /\ op.response.kind # "ok") => ret.results = <<>>)
  /\ [][(pc \in DOMAIN AfterSearch /\ fetched' = fetched) =>
          (/\ all_articles' = all_articles
           /\ pc' \in AfterSearch[pc]
           /\ op' = op)]_vars
  /\ []((pc = "industry_return") => Len(all_articles) = linked)
  /\ []((pc = "done" /\ op.name = "collect_competitor_news") =>
          Len(comp_news.collected) = linked)

\* the feed answered with a status other than 200
C17_Witness ==
  /\ SearchDone
  /\ op.response.kind = "status"
  /\ ret.results = <<>> /\ ~ret.raised

\* C18: search returns at most max_results records in feed order: with
\* exclusion the first max_results non-rejected items among the first
\* 3 * max_results items of the feed, without exclusion the first max_results items.
C18_SearchResultIsFirstAcceptedOfInspected ==
  (SearchDone /\ op.response.kind = "ok") =>
    LET inspected == Slice(op.response.items,
                           IF op.exclude_korean THEN 3 * op.max_results ELSE op.max_results)
        accepted  == IF op.exclude_korean
                       THEN SelectSeq(inspected,
                                      LAMBDA it : ~_is_korean_source(it.source, it.link, it.title))
                       ELSE inspected
    IN  /\ Len(ret.results) <= op.max_results
        /\ ret.results = [ i \in 1..Min(op.max_results, Len(accepted)) |->
                             ResultRecord(accepted[i]) ]

\* the three items inspected are all rejected, the acceptable fourth is not looked at
C18_Witness ==
  /\ SearchDone
  /\ op.exclude_korean /\ op.max_results = 1
  /\ op.response.kind = "ok" /\ Len(op.response.items) = 4
  /\ op.response.items[4] \notin KoreanFeedItems
  /\ ret.results = <<>>

KoreanSourceDone == pc = "done" /\ op.name = "_is_korean_source"

FreshnessTokens == {"when:1d", "when:7d", "when:30d"}

\* C20: for every value of days the query sent carries exactly one of the
\* tokens when:1d, when:7d, when:30d: 1d for days <= 1, 7d for days <= 7,
\* otherwise 30d, also for the doubled days of the competitor search.
C20_QueryCarriesOneFreshnessToken ==
  SearchDone =>
    /\ Cardinality({ i \in 1..Len(ret.q) : ret.q[i] \in FreshnessTokens }) = 1
    /\ ret.q = <<op.query,
                 IF op.days <= 1 THEN "when:1d"
                 ELSE IF op.days <= 7 THEN "when:7d" ELSE "when:30d">>

(***************************************************************************)
(* ArticleCrawler.extract_article                                          *)
(***************************************************************************)
ExtractDone == pc = "done" /\ op.name = "extract_article"

\* C21: extract_article reports success iff the extracted text has at least
\* 100 characters (exactly 100 is a success); a shorter or empty text is a
\* failure with an error reason, and the partial text is still in full_text.
C21_SuccessIffAtLeastHundredCharacters ==
  (ExtractDone /\ op.outcome.kind = "text") =>
    /\ ret.success <=> Len(op.outcome.result) >= 100
    /\ ~ret.success => (ret.error # "" /\ ret.full_text = op.outcome.result)

\* C22: extract_article returns a record with a boolean success for every
\* outcome; when success is false the record carries a non-empty error and
\* the counter of successful crawls is unchanged, on success it is one higher.
C22_FailureCarriesErrorAndCounterCountsSuccesses ==
  ExtractDone =>
    /\ ret.success \in BOOLEAN
    /\ ~ret.success => (ret.error # "" /\ crawled_count = 0)
    /\ ret.success => crawled_count = 1

(***************************************************************************)
(* URL normalization                                                       *)
(***************************************************************************)
\* base URLs: no query string, no trailing slash
Bases == { <<"a">>, <<"b">>, <<"b","/","c">> }

\* url is base, base/, base?query or base/?query
IsVariant(url, base) ==
  /\ Len(url) >= Len(base)
  /\ SubSeq(url, 1, Len(base)) = base
  /\ LET rest == SubSeq(url, Len(base) + 1, Len(url))
     IN  \/ rest = <<>>
         \/ rest = <<"/">>
         \/ rest[1] = "?"
         \/ (Len(rest) >= 2 /\ rest[1] = "/" /\ rest[2] = "?")

\* C23: normalization cuts at the first `?` and strips a trailing slash: u,
\* u/, u?q and u/?q all normalize to the base u, normalizing twice is
\* normalizing once, and dedup keeps one article of those that differ only
\* by query string or trailing slash.
C23_NormalizationCollapsesVariants ==
  DedupDone =>
    /\ \A u \in Bases :
         /\ Normalize(u) = u
         /\ Normalize(u \o <<"/">>) = u
         /\ Normalize(u \o <<"?","q">>) = u
         /\ Normalize(u \o <<"/","?","q">>) = u
    /\ \A a \in Range(op.articles) :
         /\ Normalize(Normalize(a.url)) = Normalize(a.url)
         /\ \A u \in Bases : IsVariant(a.url, u) => Normalize(a.url) = u
    /\ \A u \in Bases :
         Cardinality({ i \in 1..Len(ret) : IsVariant(ret[i].url, u) }) <= 1

\* three links of one page (plain, with query string, with slash and query) give one article
C23_Witness ==
  /\ DedupDone
  /\ Len(op.articles) = 3
  /\ op.articles[1].url = <<"a","/","?","r">>
  /\ op.articles[2].url = <<"a">>
  /\ op.articles[3].url = <<"a","?","r">>
  /\ Len(ret) = 1 /\ ret[1] = op.articles[1]

(***************************************************************************)
(* save_articles / load_articles                                           *)
(***************************************************************************)
LoadDone == pc = "done" /\ op.name = "load_articles"

SavesTo(path) == { i \in 1..Len(op.saves) : op.saves[i].path = path }

\* the list of the latest save_articles call that wrote to path
LastSaved(path) ==
  op.saves[CHOOSE i \in SavesTo(path) : \A j \in SavesTo(path) : j <= i].articles

\* C24: load_articles(p) after save_articles(L, p) returns L, field for field
\* and in order; after several saves to p it returns the list of the last
\* one only. (p is a path: the empty default argument names no file.)
C24_LoadReturnsLastSavedList ==
  (LoadDone /\ op.filepath # "" /\ SavesTo(op.filepath) # {}) =>
    /\ ~ret.raised
    /\ ret.articles = LastSaved(op.filepath)

\* a longer list was saved to the path first, then a list with quotes,
\* backslash and comma in its texts
C24_Witness ==
  /\ LoadDone
  /\ op.filepath = "p.json"
  /\ Len(op.saves) = 2
  /\ op.saves[1] = [ path |-> "p.json", articles |-> <<SavedQuoted, SavedLong, SavedPlain>> ]
  /\ op.saves[2] = [ path |-> "p.json", articles |-> <<SavedPlain, SavedQuoted>> ]
  /\ ret.articles = <<SavedPlain, SavedQuoted>>

(***************************************************************************)
(* collect_for_company: order of the sub-collections, pauses, bundle lists *)
(***************************************************************************)
\* collect_for_company of the collector itself, from its first statement on
ForCompanyRunning == op.name = "collect_for_company" /\ calls # <<>>

CallIndices == 1..Len(calls)

IsSearch(i, queries) == calls[i].step = "search" /\ calls[i].query \in queries

IndustrySearches == { i \in CallIndices : IsSearch(i, {"trend", "regulation"}) }

CompetitorSearches ==
  { i \in CallIndices : IsSearch(i, {"competitor_name", "competitor_keyword"}) }

CompetitorCalls == { i \in CallIndices : calls[i].step = "collect_competitor_news" }

CompanySearches == { i \in CallIndices : IsSearch(i, {"company"}) }

CompetitorsGiven == ~op.competitors_none /\ op.competitors # <<>>

\* C25: collect_for_company first calls collect_industry_news(industry, days,
\* max_per_category); then collect_competitor_news with lookback 2 x days if
\* and only if competitors is non-empty (for None or [] no competitor search
\* is issued); last it issues exactly one search on the company name with
\* max_results = 5 and lookback days.
C25_SubCollectionsInFixedOrder ==
  ForCompanyRunning =>
    /\ calls[1] = IndustryCall(op.industry, op.days, op.max_per_category)
    /\ \A i \in CallIndices : calls[i].step = "collect_industry_news" => i = 1
    /\ \A i \in IndustrySearches : \A j \in CompetitorCalls \cup CompanySearches : i < j
    /\ \A i \in CompetitorCalls :
         /\ CompetitorsGiven
         /\ calls[i] = CompetitorCall(op.competitors, op.industry, 2 * op.days)
         /\ \A j \in CompetitorSearches : i < j
    /\ Cardinality(CompetitorCalls) <= 1
    /\ \A i \in CompetitorSearches :
         /\ CompetitorCalls # {}
         /\ calls[i].days = 2 * op.days
         /\ \A j \in CompanySearches : i < j
    /\ pc # "done" => CompanySearches = {}
    /\ pc = "done" =>
         /\ IndustrySearches # {}
         /\ CompetitorsGiven <=> CompetitorCalls # {}
         /\ CompetitorsGiven <=> CompetitorSearches # {}
         /\ CompanySearches = { Len(calls) }
         /\ calls[Len(calls)] = SearchCall("company", 5, op.days)

\* a run with competitors and days = 3: the competitors were searched with
\* lookback 6 between the industry searches and the company search
C25_Witness ==
  /\ ForCompanyRunning /\ pc = "done"
  /\ op.days = 3
  /\ CompetitorsGiven
  /\ \E i \in CompetitorCalls : calls[i].days = 6
  /\ \E i \in CompetitorSearches : calls[i].days = 6

LoopSearches == IndustrySearches \cup CompetitorSearches

\* C26: between any two consecutive searches of the keyword loops (trend,
\* regulation, competitor name, competitor name + keyword) there is a pause.
C26_PauseBetweenLoopSearches ==
  \A i \in LoopSearches : \A j \in LoopSearches :
     i < j => \E s \in (i + 1)..(j - 1) : calls[s].step = "sleep"

\* C27: in the bundle collect_for_company returns, the lists industry_trend,
\* competitor and regulation hold only articles with that category, and
\* company_news holds only articles with category `company`.
C27_BundleListsHoldTheirCategory ==
  (ForCompanyRunning /\ pc = "done") =>
    /\ \A key \in {"industry_trend", "competitor", "regulation"} :
         \A a \in Range(ret[key]) : a.category = key
    /\ \A a \in Range(ret["company_news"]) : a.category = "company"

(***************************************************************************)
(* LeadCRM (src/pipeline_store.py)                                         *)
(***************************************************************************)
LEAD_STATUSES ==
  { "new", "researched", "sent", "replied", "meeting_set", "converted_subscriber",
    "no_response", "archived" }

\* leads stored at a time
MaxLeads == 2

\* history entries in the store
MaxHistory == 2

\* days the clock runs through
MaxDay == 2

\* the Korean column names of a run's leads: company, e-mail
KeyCompany == "uD68CuC0ACuBA85"

KeyEmail == "uC774uBA54uC77C"

\* datetime.now().isoformat()
Timestamp(day) == "isoformat"

\* dict.get(key, default)
Get(d, key, default) == IF key \in DOMAIN d THEN d[key] ELSE default

\* f"lead_{today}_{seq:03d}"
LeadId(day, seq) == [ day |-> day, seq |-> seq ]

\* [l for l in leads if l.get("lead_id", "").startswith(f"lead_{today}")]
ExistingToday(ls, day) == SelectSeq(ls, LAMBDA l : l.lead_id.day = day)

NewLead(ls, lead_data, day) ==
  [ lead_id |-> LeadId(day, Len(ExistingToday(ls, day)) + 1),
    company |-> Get(lead_data, "company", Get(lead_data, KeyCompany, "")),
    contact_email |-> Get(lead_data, "contact_email", Get(lead_data, KeyEmail, "")),
    source |-> Get(lead_data, "source", "manual"),
    status |-> "new",
    last_sent_at |-> <<>>,
    replied |-> FALSE,
    converted_to_subscriber |-> FALSE,
    custom_research |-> <<>>,
    history |-> <<>> ]

add_lead(ls, lead_data, day) == Append(ls, NewLead(ls, lead_data, day))

Matches(ls, lead_id) == { i \in 1..Len(ls) : ls[i].lead_id = lead_id }

\* the first lead the loop `for i, lead in enumerate(leads)` finds
FirstMatch(ls, lead_id) ==
  CHOOSE i \in Matches(ls, lead_id) : \A j \in Matches(ls, lead_id) : i <= j

\* for key, val in updates.items(): if key != "lead_id": lead[key] = val
WithUpdates(lead, updates, skipped) ==
  [ key \in DOMAIN lead \cup (DOMAIN updates \ skipped) |->
      IF key \in DOMAIN updates \ skipped THEN updates[key] ELSE lead[key] ]

\* f"status: {old_status} -> {new_status}"
StatusAction(old_status, new_status) == << old_status, new_status >>

LeadHistoryOnUpdate(lead, new_status, day) ==
  IF lead.status # new_status
    THEN Append(lead.history, [ action |-> StatusAction(lead.status, new_status),
                                timestamp |-> Timestamp(day) ])
    ELSE lead.history

UpdatedLead(lead, updates, day) ==
  WithUpdates([ lead EXCEPT !.history = LeadHistoryOnUpdate(lead, Get(updates, "status", lead.status), day) ],
              updates, {"lead_id"})

update_lead(ls, lead_id, updates, day) ==
  IF Matches(ls, lead_id) = {}
    THEN [ ok |-> FALSE, leads |-> ls ]
    ELSE [ ok |-> TRUE,
           leads |-> [ ls EXCEPT ![FirstMatch(ls, lead_id)] = UpdatedLead(@, updates, day) ] ]

StatusUpdates(new_status, day) ==
  IF new_status = "sent" THEN [ status |-> new_status, last_sent_at |-> << Timestamp(day) >> ]
  ELSE IF new_status = "replied" THEN [ status |-> new_status, replied |-> TRUE ]
  ELSE IF new_status = "converted_subscriber"
    THEN [ status |-> new_status, converted_to_subscriber |-> TRUE ]
  ELSE [ status |-> new_status ]

StatusChangedLead(lead, new_status, note, day) ==
  WithUpdates([ lead EXCEPT !.history =
                  Append(@, [ action |-> StatusAction(lead.status, new_status),
                              note |-> note, timestamp |-> Timestamp(day) ]) ],
              StatusUpdates(new_status, day), {})

\* mutant of update_status: any status is accepted
UpdateStatusWithoutValidation(ls, lead_id, new_status, note, day) ==
  IF Matches(ls, lead_id) = {}
    THEN [ ok |-> FALSE, leads |-> ls ]
    ELSE [ ok |-> TRUE,
           leads |-> [ ls EXCEPT ![FirstMatch(ls, lead_id)] =
                                   StatusChangedLead(@, new_status, note, day) ] ]

update_status(ls, lead_id, new_status, note, day) ==
  IF new_status \notin LEAD_STATUSES \/ Matches(ls, lead_id) = {}
    THEN [ ok |-> FALSE, leads |-> ls ]
    ELSE [ ok |-> TRUE,
           leads |-> [ ls EXCEPT ![FirstMatch(ls, lead_id)] =
                                   StatusChangedLead(@, new_status, note, day) ] ]

Kept(ls, lead_id) == SelectSeq(ls, LAMBDA l : l.lead_id # lead_id)

delete_lead(ls, lead_id) ==
  [ ok |-> Len(Kept(ls, lead_id)) < Len(ls), leads |-> Kept(ls, lead_id) ]

\* the leads of a stored run; a run that does not exist has none
RunLeads(run_id) ==
  IF run_id = "run_1"
    THEN << [ uC774uBA54uC77C |-> "a@x.io", uD68CuC0ACuBA85 |-> "Acme" ],
            [ uD68CuC0ACuBA85 |-> "Beta" ] >>
  ELSE IF run_id = "run_2"
    THEN << [ uC774uBA54uC77C |-> "b@x.io", uD68CuC0ACuBA85 |-> "Beta" ],
            [ uC774uBA54uC77C |-> "a@x.io", uD68CuC0ACuBA85 |-> "Acme" ],
            [ uC774uBA54uC77C |-> "b@x.io", uD68CuC0ACuBA85 |-> "Beta" ] >>
  ELSE <<>>

RunIds == {"run_1", "run_2", "run_0"}

ImportedData(ld) ==
  [ company |-> Get(ld, KeyCompany, ""), contact_email |-> Get(ld, KeyEmail, ""),
    source |-> "pipeline_import" ]

RECURSIVE ImportFrom(_, _, _, _, _)
ImportFrom(ls, run_leads, existing_emails, imported, day) ==
  IF run_leads = <<>> THEN [ leads |-> ls, imported |-> imported ]
  ELSE IF Get(Head(run_leads), KeyEmail, "") # ""
          /\ Get(Head(run_leads), KeyEmail, "") \notin existing_emails
    THEN ImportFrom(add_lead(ls, ImportedData(Head(run_leads)), day), Tail(run_leads),
                    existing_emails \cup { Get(Head(run_leads), KeyEmail, "") },
                    Append(imported, NewLead(ls, ImportedData(Head(run_leads)), day)), day)
    ELSE ImportFrom(ls, Tail(run_leads), existing_emails, imported, day)

import_leads_from_run(ls, run_id, day) ==
  ImportFrom(ls, RunLeads(run_id), { ls[i].contact_email : i \in 1..Len(ls) }, <<>>, day)

\* the arguments the pages and the researcher pass
LeadData ==
  { [ company |-> "Acme", contact_email |-> "a@x.io", source |-> "manual" ],
    [ uD68CuC0ACuBA85 |-> "Beta", uC774uBA54uC77C |-> "b@x.io" ] }

LeadIds == { LeadId(day, seq) : day \in 1..MaxDay, seq \in 1..MaxLeads }

\* statuses handed to update_status: with and without a flag of their own, and one
\* that is not configured
StatusArgs == {"sent", "replied", "meeting_set", "converted_subscriber", "unknown"}

Notes == {"memo"}

UpdateArgs ==
  { [ custom_research |-> << "research" >>, status |-> "researched" ],
    [ lead_id |-> LeadId(1, 2), status |-> "sent" ] }

RECURSIVE HistoryEntries(_)
HistoryEntries(ls) ==
  IF ls = <<>> THEN 0 ELSE Len(Head(ls).history) + HistoryEntries(Tail(ls))

HistoryBounded(ls) == HistoryEntries(ls) <= MaxHistory

\* the collector's variables, which the CRM does not touch
news == << crawl_body, pc, k, ci, all_articles, industry_news, comp_news, result,
           clock, crawled_count, fetched, linked, files, calls >>

CrmInit == Init /\ pc = "idle" /\ ~crawl_body

AddLead ==
  /\ Len(leads) < MaxLeads
  /\ \E lead_data \in LeadData :
       /\ op' = [ name |-> "add_lead", lead_data |-> lead_data ]
       /\ leads' = add_lead(leads, lead_data, today)
       /\ ret' = NewLead(leads, lead_data, today)
  /\ UNCHANGED << today, news >>

UpdateLead ==
  /\ \E lead_id \in LeadIds, updates \in UpdateArgs :
       \E r \in { update_lead(leads, lead_id, updates, today) } :
         /\ HistoryBounded(r.leads)
         /\ op' = [ name |-> "update_lead", lead_id |-> lead_id, updates |-> updates ]
         /\ leads' = r.leads
         /\ ret' = r.ok
  /\ UNCHANGED << today, news >>

UpdateStatus ==
  /\ \E lead_id \in LeadIds, new_status \in StatusArgs, note \in Notes :
       \E r \in { update_status(leads, lead_id, new_status, note, today) } :
         /\ HistoryBounded(r.leads)
         /\ op' = [ name |-> "update_status", lead_id |-> lead_id,
                    new_status |-> new_status, note |-> note ]
         /\ leads' = r.leads
         /\ ret' = r.ok
  /\ UNCHANGED << today, news >>

DeleteLead ==
  /\ \E lead_id \in LeadIds :
       \E r \in { delete_lead(leads, lead_id) } :
         /\ op' = [ name |-> "delete_lead", lead_id |-> lead_id ]
         /\ leads' = r.leads
         /\ ret' = r.ok
  /\ UNCHANGED << today, news >>

ImportLeadsFromRun ==
  /\ \E run_id \in RunIds :
       \E r \in { import_leads_from_run(leads, run_id, today) } :
         /\ Len(r.leads) <= MaxLeads
         /\ op' = [ name |-> "import_leads_from_run", run_id |-> run_id ]
         /\ leads' = r.leads
         /\ ret' = r.imported
  /\ UNCHANGED << today, news >>

\* datetime.now() reaches the next day
Midnight ==
  /\ today < MaxDay
  /\ today' = today + 1
  /\ op' = [ name |-> "none" ]
  /\ UNCHANGED << leads, ret, news >>

CrmNext ==
  \/ AddLead
  \/ UpdateLead
  \/ UpdateStatus
  \/ DeleteLead
  \/ ImportLeadsFromRun
  \/ Midnight

CrmSpec == CrmInit /\ [][CrmNext]_vars

LeadIdsOf(ls) == [ i \in 1..Len(ls) |-> ls[i].lead_id ]

\* C28: no two stored leads have the same lead_id, and update_lead never
\* changes a lead's lead_id, also when updates holds one.
C28_LeadIdIsUniqueKey ==
  /\ [](\A i \in 1..Len(leads) : \A j \in 1..Len(leads) :
          leads[i].lead_id = leads[j].lead_id => i = j)
  /\ [][op'.name = "update_lead" => LeadIdsOf(leads') = LeadIdsOf(leads)]_vars

\* the transitions of the class docstring's status flow
StatusFlow ==
  { << "new", "researched" >>, << "researched", "sent" >>, << "sent", "replied" >>,
    << "replied", "meeting_set" >>, << "sent", "no_response" >>,
    << "no_response", "archived" >> }

\* C29: a lead starts at `new`, and update_status and update_lead change a
\* lead's status only along new -> researched -> sent -> replied ->
\* meeting_set or sent -> no_response -> archived.
C29_StatusFollowsFlow ==
  /\ [][op'.name \in {"add_lead", "import_leads_from_run"} =>
          \A i \in (Len(leads) + 1)..Len(leads') : leads'[i].status = "new"]_vars
  /\ [][op'.name \in {"update_status", "update_lead"} =>
          \A i \in 1..Len(leads) :
             \/ leads'[i].status = leads[i].status
             \/ << leads[i].status, leads'[i].status >> \in StatusFlow]_vars

\* what update_status may change of a lead besides status and history
StatusFlags == {"last_sent_at", "replied", "converted_to_subscriber"}

\* C30: update_status with a status outside the configured statuses, or with
\* a lead_id that is not stored, returns False and changes no stored lead;
\* with a valid status on a stored lead it returns True, sets that lead's
\* status, appends exactly one history entry, and changes no other lead.
C30_UpdateStatusValidates ==
  [][op'.name = "update_status" =>
       IF op'.new_status \notin LEAD_STATUSES \/ Matches(leads, op'.lead_id) = {}
         THEN ret' = FALSE /\ leads' = leads
         ELSE /\ ret' = TRUE
              /\ Len(leads') = Len(leads)
              /\ \E i \in Matches(leads, op'.lead_id) :
                   /\ leads'[i].status = op'.new_status
                   /\ Len(leads'[i].history) = Len(leads[i].history) + 1
                   /\ SubSeq(leads'[i].history, 1, Len(leads[i].history)) = leads[i].history
                   /\ \A key \in DOMAIN leads[i] \ (StatusFlags \cup {"status", "history"}) :
                        leads'[i][key] = leads[i][key]
                   /\ \A j \in 1..Len(leads) : j # i => leads'[j] = leads[j]]_vars

\* a stored lead among two was moved to `sent` by update_status
C30_Witness ==
  /\ op.name = "update_status" /\ op.new_status = "sent"
  /\ ret = TRUE
  /\ Len(leads) = 2
  /\ \E i \in Matches(leads, op.lead_id) :
       /\ leads[i].status = "sent"
       /\ leads[i].last_sent_at # <<>>
       /\ Len(leads[i].history) = 1

====
